---- MODULE Spec2Model ----
(***************************************************************************)
(* The media date-resolution and archival engine of PythonScripts:         *)
(* Sort-N-Rename-Media.py, Rename-Jpgs.py, the ledger-backed scripts       *)
(* Add-Missing-EXIF.py and Find-PNGs-as-JPGs.py, and the helpers of        *)
(* shared_methods.py they call.                                            *)
(*                                                                         *)
(* Text is modelled structurally.  A string that the code matches against  *)
(* its regular expressions (a file stem, an EXIF value) is a record `Str`: *)
(*   pre   - it starts with a 3-character prefix and "_"  (IMG_)           *)
(*   fmt   - "dash"    YYYY-MM-DD HH.MM.SS                                 *)
(*           "compact" YYYYMMDD_HHMMSS                                     *)
(*           "colon"   YYYY:MM:DD HH:MM:SS   (the EXIF form)               *)
(*           "none"    no timestamp at the start of the string             *)
(*   ts    - the six two/four digit groups                                 *)
(*   micro - the digits of the sub-second group that follows the seconds   *)
(*   tail  - a further ".000" group after the sub-second group             *)
(*   idx   - the collision suffixes " (n)" at the end, outermost last      *)
(*   text  - the characters of a string without a timestamp                *)
(* A path is the sequence of its directory names; a file is a directory    *)
(* path and a name [stem, ext].                                            *)
(***************************************************************************)
EXTENDS Integers, Sequences, FiniteSets, TLC

(***************************************************************************)
(* Bounds of the model.                                                    *)
(***************************************************************************)
MaxFiles == 2
MaxRuns == 2
MaxFaults == 1

FileIds == 1..MaxFiles

(***************************************************************************)
(* Strings.                                                                *)
(***************************************************************************)
TS(y, mo, d, h, mi, s) ==
    [year |-> y, month |-> mo, day |-> d, hour |-> h, minute |-> mi, second |-> s]

NoTS == TS("", "", "", "", "", "")

MkStr(pre, fmt, ts, micro, tail, idx, text) ==
    [pre |-> pre, fmt |-> fmt, ts |-> ts, micro |-> micro, tail |-> tail,
     idx |-> idx, text |-> text]

\* A string without a timestamp; Plain("") is the empty string / None.
Plain(text) == MkStr(FALSE, "none", NoTS, <<>>, FALSE, <<>>, text)

NoVal == Plain("")

\* "YYYY:MM:DD HH:MM:SS", the form of an EXIF date value.
ExifStr(ts) == MkStr(FALSE, "colon", ts, <<>>, FALSE, <<>>, "")

\* "YYYY-MM-DD HH.MM.SS[.micro]"
DashStr(ts, micro) == MkStr(FALSE, "dash", ts, micro, FALSE, <<>>, "")

MkName(stem, ext) == [stem |-> stem, ext |-> ext]

\* str.lower() on the extensions of the model.
Lower(ext) ==
    CASE ext = ".JPG" -> ".jpg"
      [] ext = ".JPEG" -> ".jpeg"
      [] ext = ".MP4" -> ".mp4"
      [] OTHER -> ext

(***************************************************************************)
(* Paths.                                                                  *)
(***************************************************************************)
Basename(p) == p[Len(p)]
Dirname(p) == SubSeq(p, 1, Len(p) - 1)
Join(p, n) == Append(p, n)

\* re.match(r'\d{4}', name) on the directory names of the model.
Starts4Digits(n) == n \in {"0000", "2019", "2020", "2020 Trip"}
\* re.match(r'\d{2}', name)
Starts2Digits(n) == Starts4Digits(n) \/ n \in {"00", "01", "02", "05"}
\* name.isdigit() and len(name) == 4
IsYearName(n) == n \in {"0000", "2019", "2020"}
\* a name starting with one of @ . $ ~
IsSpecialName(n) == n \in {"@eaDir", ".thumbs", "$RECYCLE", "~tmp"}

(***************************************************************************)
(* Sort-N-Rename-Media.py: the patterns and extension sets.                *)
(***************************************************************************)
PHOTO_EXTENSIONS == {".png", ".jpg", ".jpeg", ".tiff", ".bmp", ".gif"}
VIDEO_EXTENSIONS == {".m4v", ".mov", ".mp4", ".avi", ".mkv", ".wmv", ".flv", ".webm"}

\* NAMED_DATE_PATTERN.match(s): an optional prefix, the six groups with
\* optional separators, an optional sub-second group of 0-9 digits.
NamedDateMatch(s) == s.fmt # "none"

\* DESIRED_FORMAT.match(s): ^YYYY-MM-DD HH.MM.SS.ddd
is_desired_media_file_format(s) ==
    s.fmt = "dash" /\ ~s.pre /\ Len(s.micro) >= 3

\* DATETIME.search(s): ^YYYY[-:.]MM[-:.]DD\sHH[-:.]MM[-:.]SS, separators required.
DatetimeSearch(s) == s.fmt \in {"dash", "colon"} /\ ~s.pre

\* format_new_filename: the groups of NAMED_DATE_PATTERN, the sub-second group
\* as matched ("000" when it is empty), joined as YYYY-MM-DD HH.MM.SS.<micro><ext>.
format_new_filename(s, extension) ==
    IF NamedDateMatch(s)
    THEN [ok |-> TRUE, year |-> s.ts.year, month |-> s.ts.month,
          new_filename |-> MkName(DashStr(s.ts, IF s.micro = <<>> THEN <<0, 0, 0>> ELSE s.micro),
                                  extension)]
    ELSE [ok |-> FALSE, year |-> "", month |-> "", new_filename |-> MkName(NoVal, "")]

\* get_new_destination: the directory and name of the destination.
get_new_destination(start_directory, year, month, new_filename) ==
    LET base_name == Basename(start_directory) IN
    IF base_name = year
    THEN [dir |-> Join(start_directory, month), name |-> new_filename]
    ELSE IF base_name = month
    THEN [dir |-> start_directory, name |-> new_filename]
    ELSE IF Starts4Digits(base_name)
    THEN [dir |-> Join(Join(Dirname(start_directory), year), month), name |-> new_filename]
    ELSE [dir |-> Join(Join(start_directory, year), month), name |-> new_filename]

(***************************************************************************)
(* The file tree and the Metadata Tag Store.  A world W is                 *)
(*   files - file id -> [alive, dir, name]                                 *)
(*   dirs  - the set of directory paths that exist                         *)
(*   tags  - file id -> tag name -> value (NoVal / <<>> when absent)       *)
(***************************************************************************)
NoFile == [alive |-> FALSE, dir |-> <<>>, name |-> MkName(NoVal, "")]

NoTags ==
    [DateTimeOriginal |-> NoVal, SubSecTimeOriginal |-> <<>>,
     CreateDate |-> NoVal, SubSecTimeDigitized |-> <<>>,
     FileModifyDate |-> NoVal, CreationDate |-> NoVal, Title |-> NoVal,
     FileType |-> NoVal]

Loc(dir, name) == [dir |-> dir, name |-> name]
NoLoc == Loc(<<>>, MkName(NoVal, ""))

LocOf(W, f) == Loc(W.files[f].dir, W.files[f].name)

FilesAt(W, loc) ==
    {f \in FileIds : W.files[f].alive /\ LocOf(W, f) = loc}

\* os.path.exists on the path of a file
PathExists(W, loc) == FilesAt(W, loc) # {}

\* os.listdir(folder): the files and the sub-directories of a directory
FilesIn(W, folder) == {f \in FileIds : W.files[f].alive /\ W.files[f].dir = folder}
SubdirsOf(W, folder) == {d \in W.dirs : Len(d) = Len(folder) + 1 /\ Dirname(d) = folder}

Prefixes(p) == {SubSeq(p, 1, n) : n \in 1..Len(p)}

\* os.makedirs(folder)
Makedirs(W, folder) == [W EXCEPT !.dirs = @ \cup Prefixes(folder)]

\* os.rename(source, destination) of file f: a file already at the destination
\* is replaced (POSIX semantics).
OsRename(W, f, dst) ==
    [W EXCEPT !.files = [g \in FileIds |->
        IF g = f THEN [alive |-> TRUE, dir |-> dst.dir, name |-> dst.name]
        ELSE IF W.files[g].alive /\ LocOf(W, g) = dst THEN NoFile
        ELSE W.files[g]]]

\* "<base> (<index>)<ext>"
WithIndex(loc, index) ==
    Loc(loc.dir, MkName([loc.name.stem EXCEPT !.idx = Append(@, index)], loc.name.ext))

\* The while loop of get_unique_filename from `index` on.
RECURSIVE UniqueFrom(_, _, _, _)
UniqueFrom(W, source_item, destination_item, index) ==
    LET new_destination_item == WithIndex(destination_item, index) IN
    IF ~PathExists(W, new_destination_item) THEN new_destination_item
    ELSE IF source_item = new_destination_item THEN new_destination_item
    ELSE UniqueFrom(W, source_item, destination_item, index + 1)

\* A get_unique_filename without the existence checks.
get_unique_filename_unchecked(W, source_item, destination_item) == destination_item

get_unique_filename(W, source_item, destination_item) ==
    IF source_item = destination_item THEN destination_item
    ELSE IF ~PathExists(W, destination_item) THEN destination_item
    ELSE UniqueFrom(W, source_item, destination_item, 1)

\* A mover whose failed os.rename has moved the file all the same.
MorfRename_half(W1, f, unique, fault) ==
    [W |-> OsRename(W1, f, unique),
     ret |-> IF fault = "rename" THEN NoLoc ELSE unique,
     used |-> fault = "rename", tried |-> unique]

\* move_or_rename_file(source, destination) for file f at `source`.
\* fault "mkdir": os.makedirs raises; fault "rename": os.rename raises.
\* ret: the returned path, NoLoc for None.
MorfRename(W1, f, unique, fault) ==
    IF fault = "rename"
    THEN [W |-> W1, ret |-> NoLoc, used |-> TRUE, tried |-> unique]
    ELSE [W |-> OsRename(W1, f, unique), ret |-> unique, used |-> FALSE, tried |-> unique]

MorfUnique(W1, f, source, destination, fault) ==
    MorfRename(W1, f, get_unique_filename(W1, source, destination), fault)

move_or_rename_file(W, f, source, destination, fault) ==
    IF source = destination
    THEN [W |-> W, ret |-> NoLoc, used |-> FALSE, tried |-> NoLoc]
    ELSE IF destination.dir \notin W.dirs /\ fault = "mkdir"
    THEN [W |-> W, ret |-> NoLoc, used |-> TRUE, tried |-> NoLoc]
    ELSE MorfUnique(IF destination.dir \notin W.dirs
                    THEN Makedirs(W, destination.dir) ELSE W,
                    f, source, destination, fault)

\* add_exif_data(file_path, exif_tag, exif_data): exiftool sets the tag of the
\* file at file_path; False when exiftool fails (fault, or no such file).
add_exif_data(W, file_path, exif_tag, exif_data, fault) ==
    LET at == FilesAt(W, file_path) IN
    IF at = {} THEN [W |-> W, ret |-> FALSE, used |-> FALSE, target |-> 0]
    ELSE LET g == CHOOSE x \in at : TRUE IN
         IF fault THEN [W |-> W, ret |-> FALSE, used |-> TRUE, target |-> g]
         ELSE [W |-> [W EXCEPT !.tags[g][exif_tag] = exif_data],
               ret |-> TRUE, used |-> FALSE, target |-> g]

\* get_exif_data(file_path, exif_tag): the value, NoVal for None.
get_exif_data(W, f, exif_tag) == W.tags[f][exif_tag]

\* The three digits get_exif_datetime makes of a sub-second tag value:
\* ljust(3, '0') below three digits, else round(float('0.' + d), 3) printed
\* without its "0." and padded.  (Four digits at most; the fourth is not 5.)
Micro3(d) ==
    IF Len(d) = 0 THEN <<0, 0, 0>>
    ELSE IF Len(d) = 1 THEN <<d[1], 0, 0>>
    ELSE IF Len(d) = 2 THEN <<d[1], d[2], 0>>
    ELSE IF Len(d) = 3 THEN d
    ELSE LET n == 100 * d[1] + 10 * d[2] + d[3] + (IF d[4] >= 5 THEN 1 ELSE 0)
             r == n % 1000
         IN <<r \div 100, (r \div 10) % 10, r % 10>>

\* get_exif_datetime(file_path, date_exif_tag, micro_exif_tag): the date value
\* with "." and three sub-second digits appended; NoVal for None.
get_exif_datetime(W, f, date_exif_tag, micro_exif_tag) ==
    LET datetime_str == get_exif_data(W, f, date_exif_tag) IN
    IF datetime_str = NoVal THEN NoVal
    ELSE LET micro == IF micro_exif_tag # "" /\ get_exif_data(W, f, micro_exif_tag) # <<>>
                      THEN Micro3(get_exif_data(W, f, micro_exif_tag))
                      ELSE <<0, 0, 0>>
         IN IF datetime_str.fmt = "none" THEN datetime_str
            ELSE [datetime_str EXCEPT !.micro = micro]

(***************************************************************************)
(* Sort-N-Rename-Media.py                                                  *)
(***************************************************************************)
DATETIME_ORIGINAL == "DateTimeOriginal"
ORIGINAL_SUBSECONDS == "SubSecTimeOriginal"
CREATED_DATE == "CreateDate"
FILE_MODIFY_DATE == "FileModifyDate"
ASF_CREATION_DATE == "CreationDate"
CREATED_SUBSECONDS == "SubSecTimeDigitized"

\* Lines 110-132: the ordered fallback over the tags of the media kind.
ExifFallback(W, f, photo, video) ==
    LET first == get_exif_datetime(W, f,
                     IF photo THEN DATETIME_ORIGINAL ELSE CREATED_DATE,
                     IF photo THEN ORIGINAL_SUBSECONDS ELSE CREATED_SUBSECONDS)
        second == get_exif_datetime(W, f,
                     IF photo THEN FILE_MODIFY_DATE ELSE ASF_CREATION_DATE, "")
        third == get_exif_datetime(W, f, DATETIME_ORIGINAL, "")
    IN IF first # NoVal THEN first
       ELSE IF second # NoVal THEN second
       ELSE IF video THEN third
       ELSE NoVal

\* Line 141: the condition of the hour reconciliation.
HourRule(exif_datetime, filename) ==
    /\ NamedDateMatch(exif_datetime)
    /\ NamedDateMatch(filename)
    /\ exif_datetime.ts.hour = "00"
    /\ filename.ts.hour # "00"

\* A merge that takes the date of the name whenever the metadata year is 0000.
MergedDatetime_zero_year(exif_datetime, filename) ==
    IF exif_datetime.ts.year = "0000"
    THEN ExifStr(filename.ts)
    ELSE ExifStr([filename.ts EXCEPT !.year = exif_datetime.ts.year,
                                     !.month = exif_datetime.ts.month,
                                     !.day = exif_datetime.ts.day])

\* Lines 143-157: the merged "YYYY:MM:DD HH:MM:SS".
MergedDatetime(exif_datetime, filename) ==
    IF exif_datetime.ts.year = "0000" /\ filename.ts.year # "0000"
    THEN ExifStr(filename.ts)
    ELSE ExifStr([filename.ts EXCEPT !.year = exif_datetime.ts.year,
                                     !.month = exif_datetime.ts.month,
                                     !.day = exif_datetime.ts.day])

\* create_new_filename_from_exif_data(folder, filename, extension, photo, video)
\* for file f.  rc is the shape of what it returns:
\*   "None"     - falls off the end (no tag gave a value): returns None
\*   "NoneNone" - (None, None)
\*   "CurNone"  - (current_full_path, None)
\*   "CurNew"   - (current_full_path, new_full_path), new_full_path in `new`
NoResult ==
    [W |-> [files |-> <<>>, dirs |-> {}, tags |-> <<>>], rc |-> "None", new |-> NoLoc,
     exif |-> NoVal, resolved |-> NoVal, merged |-> FALSE, wrote |-> FALSE, used |-> FALSE]

\* Lines 162-177: the new name and the destination of the resolved timestamp.
CnfResult(current_full_path, new_full_path, ok, exif0, exif_datetime, merge, w) ==
    [W |-> w.W,
     rc |-> IF ~ok THEN "NoneNone"
            ELSE IF current_full_path = new_full_path THEN "CurNone" ELSE "CurNew",
     new |-> IF ok /\ current_full_path # new_full_path THEN new_full_path ELSE NoLoc,
     exif |-> exif0, resolved |-> exif_datetime, merged |-> merge,
     wrote |-> w.ret, used |-> w.used]

CnfDestination(start_directory, current_full_path, fmt, exif0, exif_datetime, merge, w) ==
    CnfResult(current_full_path,
              get_new_destination(start_directory, fmt.year, fmt.month, fmt.new_filename),
              fmt.ok, exif0, exif_datetime, merge, w)

\* A resolver that writes the timestamp it resolved on every path.
CnfWrite_always(W, start_directory, f, exif0, exif_datetime, merge, fault) ==
    CnfDestination(start_directory, LocOf(W, f),
                   format_new_filename(exif_datetime, W.files[f].name.ext),
                   exif0, exif_datetime, merge,
                   add_exif_data(W, LocOf(W, f), DATETIME_ORIGINAL, exif_datetime,
                                 fault = "dto"))

\* Lines 158-160: the merged timestamp is written to DateTimeOriginal.
CnfWrite(W, start_directory, f, exif0, exif_datetime, merge, fault) ==
    CnfDestination(start_directory, LocOf(W, f),
                   format_new_filename(exif_datetime, W.files[f].name.ext),
                   exif0, exif_datetime, merge,
                   IF merge
                   THEN add_exif_data(W, LocOf(W, f), DATETIME_ORIGINAL, exif_datetime,
                                      fault = "dto")
                   ELSE [W |-> W, ret |-> FALSE, used |-> FALSE, target |-> 0])

\* Lines 135-157: the hour reconciliation.
CnfMerge(W, start_directory, f, exif0, merge, fault) ==
    CnfWrite(W, start_directory, f, exif0,
             IF merge THEN MergedDatetime(exif0, W.files[f].name.stem) ELSE exif0,
             merge, fault)

CnfResolve(W, start_directory, f, exif0, fault) ==
    IF exif0 = NoVal THEN [NoResult EXCEPT !.W = W]
    ELSE CnfMerge(W, start_directory, f, exif0, HourRule(exif0, W.files[f].name.stem), fault)

create_new_filename_from_exif_data(W, start_directory, f, photo, video, fault) ==
    CnfResolve(W, start_directory, f, ExifFallback(W, f, photo, video), fault)

\* What the step of one file did (the variable ev):
\*   f, src   - the file and its path before the step
\*   kind     - "noext", "notmedia", "inplace", "crash", "unresolved",
\*              "samepath", "moved", "movefail", "skipped", ...
\*   lit, fin - the destination that was built, the path the mover returned
\*   exif     - the timestamp the fallback chain gave; resolved - the
\*              timestamp the name was built from; merged, wrote - the hour
\*              reconciliation applied, its write succeeded
\*   title    - the file whose Title was written (0: none)
\*   fault    - the failure injected in the step; dto - DateTimeOriginal of
\*              the file before the step
NoEvent ==
    [f |-> 0, kind |-> "none", src |-> NoLoc, lit |-> NoLoc, fin |-> NoLoc,
     fromName |-> FALSE, exif |-> NoVal, resolved |-> NoVal, merged |-> FALSE,
     wrote |-> FALSE, title |-> 0, fault |-> "none", dto |-> NoVal]

\* Lines 316-322: the move, and the Title of a file whose name is no timestamp.
RfdMoved(mv, ti, new_full_path, from_fileName, ev1, used1) ==
    [W |-> ti.W, crash |-> FALSE, used |-> used1 \/ mv.used \/ ti.used,
     ev |-> [ev1 EXCEPT !.kind = IF mv.ret = NoLoc THEN "movefail" ELSE "moved",
                        !.lit = new_full_path, !.fin = mv.ret,
                        !.fromName = from_fileName,
                        !.title = IF ti.ret THEN ti.target ELSE 0]]

RfdTitle(mv, name, new_full_path, from_fileName, ev1, used1, fault) ==
    RfdMoved(mv,
             IF name # NoVal /\ ~from_fileName /\ ~DatetimeSearch(name)
             THEN add_exif_data(mv.W, new_full_path, "Title", name, fault = "title")
             ELSE [W |-> mv.W, ret |-> FALSE, used |-> FALSE, target |-> 0],
             new_full_path, from_fileName, ev1, used1)

RfdMove(W1, f, name, current_full_path, new_full_path, from_fileName, ev1, used1, fault) ==
    RfdTitle(move_or_rename_file(W1, f, current_full_path, new_full_path, fault),
             name, new_full_path, from_fileName, ev1, used1, fault)

\* Lines 296-304: the name already has the desired form, so year, month and
\* new_filename are all set.
RfdFromName(W, start_directory, f, new_full_path, ev0, fault) ==
    IF LocOf(W, f) = new_full_path
    THEN [W |-> W, crash |-> FALSE, used |-> FALSE, ev |-> [ev0 EXCEPT !.kind = "inplace"]]
    ELSE RfdMove(W, f, W.files[f].name.stem, LocOf(W, f), new_full_path, TRUE,
                 [ev0 EXCEPT !.resolved = W.files[f].name.stem], FALSE, fault)

\* Lines 305-314: the name is resolved from the metadata.  Unpacking the None
\* of a function that fell off its end raises TypeError, which nothing catches.
RfdFromExif(W, f, r, ev1, fault) ==
    IF r.rc = "None"
    THEN [W |-> W, crash |-> TRUE, used |-> FALSE, ev |-> [ev1 EXCEPT !.kind = "crash"]]
    ELSE IF r.rc = "NoneNone"
    THEN [W |-> r.W, crash |-> FALSE, used |-> r.used, ev |-> [ev1 EXCEPT !.kind = "unresolved"]]
    ELSE IF r.rc = "CurNone"
    THEN [W |-> r.W, crash |-> FALSE, used |-> r.used, ev |-> [ev1 EXCEPT !.kind = "samepath"]]
    ELSE RfdMove(r.W, f, W.files[f].name.stem, LocOf(W, f), r.new, FALSE, ev1, r.used, fault)

RfdExifEvent(W, f, r, ev0, fault) ==
    RfdFromExif(W, f, r, [ev0 EXCEPT !.exif = r.exif, !.resolved = r.resolved,
                                     !.merged = r.merged, !.wrote = r.wrote], fault)

\* A loop body that resolves a name of the desired form from the metadata too.
RfdDesired_exif(W, start_directory, f, fmt, ev0, fault) ==
    RfdExifEvent(W, f,
                 create_new_filename_from_exif_data(W, start_directory, f,
                     Lower(W.files[f].name.ext) \in PHOTO_EXTENSIONS,
                     Lower(W.files[f].name.ext) \in VIDEO_EXTENSIONS, fault),
                 ev0, fault)

RfdDesired(W, start_directory, f, fmt, ev0, fault) ==
    RfdFromName(W, start_directory, f,
                get_new_destination(start_directory, fmt.year, fmt.month, fmt.new_filename),
                ev0, fault)

RfdMedia(W, start_directory, f, photo, video, ev0, fault) ==
    IF ~photo /\ ~video
    THEN [W |-> W, crash |-> FALSE, used |-> FALSE, ev |-> [ev0 EXCEPT !.kind = "notmedia"]]
    ELSE IF is_desired_media_file_format(W.files[f].name.stem)
    THEN RfdDesired(W, start_directory, f,
                    format_new_filename(W.files[f].name.stem, W.files[f].name.ext), ev0, fault)
    ELSE RfdExifEvent(W, f,
                      create_new_filename_from_exif_data(W, start_directory, f, photo, video,
                                                         fault),
                      ev0, fault)

\* Lines 280-322: the body of the loop of rename_files_in_destination for the
\* file f of the folder.  crash: an exception leaves the loop.
ProcessFile(W, start_directory, f, fault) ==
    IF W.files[f].name.ext = ""
    THEN [W |-> W, crash |-> FALSE, used |-> FALSE,
          ev |-> [NoEvent EXCEPT !.f = f, !.src = LocOf(W, f), !.kind = "noext"]]
    ELSE RfdMedia(W, start_directory, f,
                  Lower(W.files[f].name.ext) \in PHOTO_EXTENSIONS,
                  Lower(W.files[f].name.ext) \in VIDEO_EXTENSIONS,
                  [NoEvent EXCEPT !.f = f, !.src = LocOf(W, f)], fault)

(***************************************************************************)
(* The state.                                                              *)
(***************************************************************************)
VARIABLES
    script,     \* which program runs: "sort", "jpgs", "addexif", "pngs", "prune"
    files,      \* the file tree: file id -> [alive, dir, name]
    dirs,       \* the directories that exist
    tags,       \* the Metadata Tag Store
    start,      \* sys.argv[1], the start directory
    cwd,        \* TRUE when the working directory is the start directory
    init0,      \* the world at the start of the first run
    run,        \* the number of the current run
    pc,         \* the control point of the current run
    folders,    \* process_files: the folders still to visit (sorted)
    walk,       \* os.walk: the directories still to visit, next first
    pending,    \* the files of the current listing not yet handled
    ret,        \* the control point after the current file loop
    ev,         \* what the last file step did
    moved,      \* the files whose path changed in the current run
    faults,     \* the number of injected tool / filesystem failures
    clean,      \* the number of runs that ran to their end
    ledger,     \* the rows of the ledger table of the script's database
    seen,       \* the files the current run handled (past its ledger check)
    handled,    \* file id -> the first run that reached its record step (0: none)
    procs,      \* the runs of a ledger script started at the same time:
                \* process id -> [pc, walk, todo, cur]
    year_folders, \* process_files: the year folder names found so far in
                \* the current folder's os.walk (sorted, with repeats)
    sync,       \* the steps of the running sync_folders calls still to
                \* take, next first
    interrupted \* TRUE once a run of Sort-N-Rename-Media was killed inside
                \* the processing of a file

ledgerVars == <<ledger, seen, handled, procs>>

syncVars == <<year_folders, sync>>

vars == <<script, files, dirs, tags, start, cwd, init0, run, pc, folders, walk,
          pending, ret, ev, moved, faults, clean, interrupted, ledger, seen, handled, procs,
          year_folders, sync>>

World == [files |-> files, dirs |-> dirs, tags |-> tags]

RECURSIVE SetToSeq(_)
SetToSeq(S) ==
    IF S = {} THEN <<>>
    ELSE LET x == CHOOSE y \in S : TRUE IN <<x>> \o SetToSeq(S \ {x})

\* sorted(): the order of the directory names of the model
NameRank(n) ==
    CASE n = "Albums" -> 1
      [] n = "Misc" -> 2
      [] OTHER -> 3

RECURSIVE SortedNames(_)
SortedNames(S) ==
    IF S = {} THEN <<>>
    ELSE LET x == CHOOSE y \in S : \A z \in S : NameRank(y) <= NameRank(z)
         IN <<x>> \o SortedNames(S \ {x})

FaultKinds == {"none", "dto", "mkdir", "rename", "title"}

(***************************************************************************)
(* Sort-N-Rename-Media.py: process_files and rename_files_in_destination.  *)
(***************************************************************************)
\* Lines 42-47: the sub-directories of start_directory that do not start with
\* digits or with one of . $ ~ @, sorted.
PfFolders(W, start_directory) ==
    SortedNames({Basename(d) : d \in {x \in SubdirsOf(W, start_directory) :
        /\ ~Starts4Digits(Basename(x))
        /\ ~Starts2Digits(Basename(x))
        /\ ~IsSpecialName(Basename(x))}})

\* Lines 264-274: rename_files_in_destination calls itself on the only entry
\* of a directory that holds one sub-directory and no file; the directory its
\* file loop (or its rmdir) finally runs in.
RECURSIVE RfdTarget(_, _)
RfdTarget(W, folder) ==
    LET subs == SubdirsOf(W, folder) IN
    IF FilesIn(W, folder) = {} /\ Cardinality(subs) = 1
    THEN RfdTarget(W, CHOOSE d \in subs : TRUE)
    ELSE folder

\* Lines 264-278: entering rename_files_in_destination(folder): the world after
\* the rmdir of an empty directory, and the files its loop will visit.
\* An entry that removes a directory holding no file, whatever else it holds.
RfdLoop_rmtree(W, t) ==
    IF FilesIn(W, t) = {}
    THEN [W |-> [W EXCEPT !.dirs = @ \ {t}], files |-> {}]
    ELSE [W |-> W, files |-> FilesIn(W, t)]

RfdLoop(W, t) ==
    IF FilesIn(W, t) = {} /\ SubdirsOf(W, t) = {}
    THEN [W |-> [W EXCEPT !.dirs = @ \ {t}], files |-> {}]
    ELSE [W |-> W, files |-> FilesIn(W, t)]

RfdEnter(W, folder) ==
    IF folder \notin W.dirs THEN [W |-> W, files |-> {}]
    ELSE RfdLoop(W, RfdTarget(W, folder))

SetWorld(W) ==
    /\ files' = W.files
    /\ dirs' = W.dirs
    /\ tags' = W.tags

\* Lines 42-47 of process_files.
PfStart ==
    /\ script = "sort" /\ pc = "start"
    /\ folders' = PfFolders(World, start)
    /\ pc' = "folder"
    /\ UNCHANGED <<ledgerVars, syncVars, script, files, dirs, tags, start, cwd, init0, run, walk, pending,
                   ret, ev, moved, faults, clean, interrupted>>

\* Lines 51-54 and 82: the next folder's os.walk, or the final
\* rename_files_in_destination(start_directory).
PfFolder ==
    /\ script = "sort" /\ pc = "folder"
    /\ IF folders # <<>>
       THEN /\ walk' = <<Join(start, Head(folders))>>
            /\ pc' = "walk"
            /\ UNCHANGED <<files, dirs, tags, pending, ret>>
       ELSE \E e \in {RfdEnter(World, start)} :
            /\ SetWorld(e.W)
            /\ pending' = e.files
            /\ ret' = "done"
            /\ pc' = "files"
            /\ walk' = <<>>
    /\ year_folders' = <<>>
    /\ UNCHANGED <<ledgerVars, sync, script, start, cwd, init0, run, folders, ev, moved, faults,
                   clean, interrupted>>

\* year_folders.sort() on the directory names of the model.
YearRank(n) ==
    CASE n = "0000" -> 0
      [] n = "2019" -> 1
      [] n = "2020" -> 2
      [] OTHER -> 3

RECURSIVE SortYears(_)
SortYears(s) ==
    IF s = <<>> THEN <<>>
    ELSE LET i == CHOOSE k \in 1..Len(s) :
                      \A j \in 1..Len(s) : YearRank(s[k]) <= YearRank(s[j])
         IN <<s[i]>> \o SortYears(SubSeq(s, 1, i - 1) \o SubSeq(s, i + 1, Len(s)))

\* One step still to take of a sync_folders call.
\*   "sync":  the call sync_folders(src, dst) itself
\*   "move":  lines 357-358, move_or_rename_file of file f to directory dst
\*   "rmdir": lines 363-365 and 368-370, os.rmdir(src) when src is empty
\*   "rfd":   line 373, rename_files_in_destination(dst)
Task(op, src, dst, f) == [op |-> op, src |-> src, dst |-> dst, f |-> f]

\* Lines 65-69 of process_files: the source of the sync of one year folder.
YearSource(root, year_folder) ==
    IF Basename(root) = year_folder THEN root ELSE Join(root, year_folder)

\* Lines 55-73: the sync_folders calls of one directory of the walk, one for
\* each name of year_folders.
YearSyncs(root, start_directory, years) ==
    [i \in 1..Len(years) |->
        Task("sync", YearSource(root, years[i]), Join(start_directory, years[i]), 0)]

\* Lines 54-79: one directory of os.walk(start_directory/folder).  The names
\* of its sub-directories that start with four digits are added to
\* year_folders (line 55).  When year_folders is empty the directory calls
\* rename_files_in_destination(start_directory/folder), line 75; otherwise it
\* syncs every year folder of the list (lines 56-72).  After the walk, lines
\* 77-79 remove the folder when it is empty and the relative path resolves,
\* that is when the working directory is start_directory.
PfWalk ==
    /\ script = "sort" /\ pc = "walk"
    /\ IF walk = <<>>
       THEN LET F == Join(start, Head(folders)) IN
            /\ dirs' = IF cwd /\ F \in dirs /\ FilesIn(World, F) = {}
                          /\ SubdirsOf(World, F) = {}
                       THEN dirs \ {F} ELSE dirs
            /\ folders' = Tail(folders)
            /\ pc' = "folder"
            /\ UNCHANGED <<files, tags, walk, pending, ret, syncVars>>
       ELSE IF Head(walk) \notin dirs
       THEN /\ walk' = Tail(walk)
            /\ UNCHANGED <<files, dirs, tags, folders, pc, pending, ret, syncVars>>
       ELSE LET subs == SetToSeq(SubdirsOf(World, Head(walk)))
                years == SortYears(year_folders \o
                            SelectSeq([i \in 1..Len(subs) |-> Basename(subs[i])],
                                      Starts4Digits))
            IN
            IF years # <<>>
            THEN /\ walk' = subs \o Tail(walk)
                 /\ year_folders' = years
                 /\ sync' = YearSyncs(Head(walk), start, years)
                 /\ pc' = "sync"
                 /\ UNCHANGED <<files, dirs, tags, folders, pending, ret>>
            ELSE \E e \in {RfdEnter(World, Join(start, Head(folders)))} :
                 /\ walk' = subs \o Tail(walk)
                 /\ SetWorld(e.W)
                 /\ pending' = e.files
                 /\ ret' = "walk"
                 /\ pc' = "files"
                 /\ UNCHANGED <<folders, syncVars>>
    /\ UNCHANGED <<ledgerVars, script, start, cwd, init0, run, ev, moved, faults, clean, interrupted>>

\* Lines 351-365: the steps of the loop of sync_folders over os.listdir of the
\* source: a file is moved to the same name in the destination, a directory
\* is synced to the directory of the same name and removed when left empty.
SyncItems(W, source_dir, destination_dir) ==
    LET fs == SetToSeq(FilesIn(W, source_dir))
        ds == SetToSeq(SubdirsOf(W, source_dir))
    IN [i \in 1..Len(fs) |-> Task("move", source_dir, destination_dir, fs[i])]
       \o [i \in 1..(2 * Len(ds)) |->
              IF i % 2 = 1
              THEN Task("sync", ds[(i + 1) \div 2],
                        Join(destination_dir, Basename(ds[(i + 1) \div 2])), 0)
              ELSE Task("rmdir", ds[i \div 2], <<>>, 0)]

\* Lines 325-373: sync_folders(source_dir, destination_dir), the steps it
\* leaves to take after its os.makedirs and os.listdir.
sync_folders(W, source_dir, destination_dir) ==
    SyncItems(W, source_dir, destination_dir)
    \o <<Task("rmdir", source_dir, <<>>, 0), Task("rfd", <<>>, destination_dir, 0)>>

\* One step of the running sync_folders calls.  os.listdir of a source that
\* does not exist raises and ends the run (after os.makedirs of line 348 made
\* the destination).
PfSync ==
    /\ script = "sort" /\ pc = "sync"
    /\ IF sync = <<>>
       THEN /\ pc' = "walk"
            /\ UNCHANGED <<files, dirs, tags, pending, ret, moved, faults, sync>>
       ELSE LET t == Head(sync) IN
            CASE t.op = "sync" ->
                 /\ IF t.src = t.dst
                    THEN /\ sync' = Tail(sync)
                         /\ UNCHANGED <<dirs, pc>>
                    ELSE /\ dirs' = dirs \cup Prefixes(t.dst)
                         /\ IF t.src \in dirs
                            THEN /\ sync' = sync_folders(World, t.src, t.dst) \o Tail(sync)
                                 /\ UNCHANGED pc
                            ELSE /\ sync' = <<>>
                                 /\ pc' = "crashed"
                 /\ UNCHANGED <<files, tags, pending, ret, moved, faults>>
              [] t.op = "move" ->
                 \E fault \in {"none", "mkdir", "rename"} :
                 \E r \in {move_or_rename_file(World, t.f, LocOf(World, t.f),
                               Loc(t.dst, files[t.f].name), fault)} :
                 /\ fault # "none" => (r.used /\ faults < MaxFaults)
                 /\ SetWorld(r.W)
                 /\ sync' = Tail(sync)
                 /\ moved' = IF LocOf(r.W, t.f) # LocOf(World, t.f)
                             THEN moved \cup {t.f} ELSE moved
                 /\ faults' = IF fault # "none" THEN faults + 1 ELSE faults
                 /\ UNCHANGED <<pc, pending, ret>>
              [] t.op = "rmdir" ->
                 /\ dirs' = IF t.src \in dirs /\ FilesIn(World, t.src) = {}
                               /\ SubdirsOf(World, t.src) = {}
                            THEN dirs \ {t.src} ELSE dirs
                 /\ sync' = Tail(sync)
                 /\ UNCHANGED <<files, tags, pc, pending, ret, moved, faults>>
              [] OTHER ->
                 \E e \in {RfdEnter(World, t.dst)} :
                 /\ SetWorld(e.W)
                 /\ pending' = e.files
                 /\ ret' = "sync"
                 /\ pc' = "files"
                 /\ sync' = Tail(sync)
                 /\ UNCHANGED <<moved, faults>>
    /\ UNCHANGED <<ledgerVars, year_folders, script, start, cwd, init0, run, folders, walk,
                   ev, clean, interrupted>>

\* Lines 280-322: one file of the loop of rename_files_in_destination.
RfdFile ==
    /\ script = "sort" /\ pc = "files"
    /\ IF pending = {}
       THEN /\ pc' = ret
            /\ clean' = IF ret = "done" THEN clean + 1 ELSE clean
            /\ UNCHANGED <<files, dirs, tags, pending, ev, moved, faults, seen>>
       ELSE \E f \in pending : \E fault \in FaultKinds :
            \E r \in {ProcessFile(World, start, f, fault)} :
            /\ fault # "none" => (r.used /\ faults < MaxFaults)
            /\ SetWorld(r.W)
            /\ pending' = pending \ {f}
            /\ ev' = [r.ev EXCEPT !.fault = fault, !.dto = tags[f].DateTimeOriginal]
            /\ moved' = IF LocOf(r.W, f) # LocOf(World, f) THEN moved \cup {f} ELSE moved
            /\ faults' = IF fault # "none" THEN faults + 1 ELSE faults
            /\ pc' = IF r.crash THEN "crashed" ELSE pc
            /\ seen' = seen \cup {f}
            /\ UNCHANGED clean
    /\ UNCHANGED <<syncVars, ledger, handled, procs, script, start, cwd, init0, run, folders, walk,
                   ret, interrupted>>

\* The process is killed inside the body of the loop for file f, once the
\* DateTimeOriginal rewrite (if any) is done: just before the os.rename of the
\* mover ("rename") or, after the move, just before the Title write ("title").
\* The tree is left as the calls made so far left it.
SortKill ==
    /\ script = "sort" /\ pc = "files" /\ ~interrupted
    /\ \E f \in pending : \E at \in {"rename", "title"} :
       \E r \in {ProcessFile(World, start, f, at)} :
       /\ r.used
       /\ SetWorld(r.W)
       /\ ev' = [r.ev EXCEPT !.kind = "killed", !.fault = at,
                             !.dto = tags[f].DateTimeOriginal]
       /\ moved' = IF LocOf(r.W, f) # LocOf(World, f) THEN moved \cup {f} ELSE moved
    /\ pc' = "killed"
    /\ interrupted' = TRUE
    /\ UNCHANGED <<ledgerVars, syncVars, script, start, cwd, init0, run, folders, walk,
                   pending, ret, faults, clean>>

\* The operator starts the program again on the tree the last run left.
NextRun ==
    /\ pc \in {"done", "crashed", "exited", "killed"}
    /\ run < MaxRuns
    /\ run' = run + 1
    /\ pc' = "start"
    /\ moved' = {}
    /\ seen' = {}
    /\ ev' = NoEvent
    /\ folders' = <<>>
    /\ walk' = <<>>
    /\ pending' = {}
    /\ ret' = "done"
    /\ year_folders' = <<>>
    /\ sync' = <<>>
    /\ UNCHANGED <<script, files, dirs, tags, start, cwd, init0, faults, clean, interrupted, ledger,
                   handled, procs>>


(***************************************************************************)
(* Rename-Jpgs.py                                                          *)
(***************************************************************************)
\* The first three digits at most: the group (?P<microseconds>\d{0,3}).
Take3(d) == IF Len(d) > 3 THEN SubSeq(d, 1, 3) ELSE d

\* get_datetime_from_filename: date_pattern.search(filename) and the string
\* "YYYY-MM-DD HH.MM.SS[.micro]" built from its groups; NoVal for None.
get_datetime_from_filename(s) ==
    IF s.fmt \in {"dash", "compact"} THEN DashStr(s.ts, Take3(s.micro)) ELSE NoVal

\* desired_format.match(s): ^YYYY-MM-DD HH.MM.SS.ddd
is_desired_format(s) == s.fmt = "dash" /\ ~s.pre /\ Len(s.micro) >= 3

\* no_time.search(s): the string ends with 00.00.00 or 00.00.00.000
is_missing_time(s) ==
    /\ s.ts.hour = "00" /\ s.ts.minute = "00" /\ s.ts.second = "00"
    /\ s.micro \in {<<>>, <<0, 0, 0>>}
    /\ ~s.tail /\ s.idx = <<>>

\* adjust_datetime_string: ".000" is appended unless the string ends with a
\* dot and three digits.
adjust_datetime_string(s) ==
    IF Len(s.micro) = 3 \/ s.tail THEN s
    ELSE IF s.micro = <<>> THEN [s EXCEPT !.micro = <<0, 0, 0>>]
    ELSE [s EXCEPT !.tail = TRUE]

\* get_exif_datetime of Rename-Jpgs: convert_exif_date of DateTimeOriginal
\* ("YYYY-MM-DD HH.MM.SS"; None when the value does not split in two at a
\* blank) with "." and three sub-second digits appended.
jpgs_get_exif_datetime(W, f) ==
    IF W.tags[f].DateTimeOriginal.fmt # "colon" THEN NoVal
    ELSE DashStr(W.tags[f].DateTimeOriginal.ts, Micro3(W.tags[f].SubSecTimeOriginal))

\* is_jpeg_extension
is_jpeg_extension(name) == Lower(name.ext) \in {".jpg", ".jpeg"}

\* find_base_directory: the path above the last directory named with four
\* digits, the directory itself when there is none.
find_base_directory(current_directory) ==
    IF \E i \in 1..Len(current_directory) : IsYearName(current_directory[i])
    THEN SubSeq(current_directory, 1,
                (CHOOSE i \in 1..Len(current_directory) :
                    /\ IsYearName(current_directory[i])
                    /\ \A j \in (i + 1)..Len(current_directory) :
                           ~IsYearName(current_directory[j])) - 1)
    ELSE current_directory

\* is_correct_index(new_path)
is_correct_index(W, new_path) ==
    IF new_path.name.stem.idx = <<>> THEN TRUE
    ELSE LET index == new_path.name.stem.idx[Len(new_path.name.stem.idx)]
             base_without_index ==
                 [new_path.name.stem EXCEPT
                     !.idx = SubSeq(@, 1, Len(new_path.name.stem.idx) - 1)]
             exact_matches == Cardinality({g \in FilesIn(W, new_path.dir) :
                 /\ W.files[g].name # new_path.name
                 /\ W.files[g].name.stem = base_without_index
                 /\ W.files[g].name.ext = new_path.name.ext})
         IN ~(index = 1 /\ exact_matches = 0) /\ ~(index > 1 /\ exact_matches # index - 1)

\* Lines 170-173: the first "<base> (<counter>)<ext>" that does not exist.
RECURSIVE MarfCounter(_, _, _)
MarfCounter(W, new_full_path, counter) ==
    IF PathExists(W, WithIndex(new_full_path, counter))
    THEN MarfCounter(W, new_full_path, counter + 1)
    ELSE WithIndex(new_full_path, counter)

MarfTarget(W1, f, new_full_path) ==
    [W |-> OsRename(W1, f, IF PathExists(W1, new_full_path)
                           THEN MarfCounter(W1, new_full_path, 1) ELSE new_full_path),
     ret |-> IF PathExists(W1, new_full_path)
             THEN MarfCounter(W1, new_full_path, 1) ELSE new_full_path,
     lit |-> new_full_path]

\* move_and_rename_file(original_path, new_full_path, rename, move) for file f
move_and_rename_file(W, f, new_full_path) ==
    MarfTarget(Makedirs(W, new_full_path.dir), f, new_full_path)

MftdMove(W, f, datetime_str, expected_directory) ==
    IF /\ W.files[f].dir = expected_directory
       /\ is_desired_format(W.files[f].name.stem)
       /\ is_correct_index(W, LocOf(W, f))
    THEN [W |-> W, ret |-> NoLoc, lit |-> NoLoc]
    ELSE move_and_rename_file(Makedirs(W, expected_directory), f,
                              Loc(expected_directory, MkName(datetime_str, ".jpg")))

MftdExpected(W, f, datetime_str, base_directory) ==
    MftdMove(W, f, datetime_str,
             Join(Join(base_directory, datetime_str.ts.year), datetime_str.ts.month))

\* move_file_to_date_folder(original_path, datetime_str) for file f
move_file_to_date_folder(W, f, datetime_str) ==
    MftdExpected(W, f, adjust_datetime_string(datetime_str),
                 find_base_directory(W.files[f].dir))

\* Lines 219-223 of process_files: the timestamp of the name, replaced by the
\* metadata timestamp when the name gives none in the desired form.
JpgsChoose(datetime_str, exif_datetime) ==
    IF exif_datetime # NoVal /\ (~is_missing_time(exif_datetime) \/ datetime_str = NoVal)
    THEN exif_datetime ELSE datetime_str

JpgsDatetime(W, f, datetime_str) ==
    IF datetime_str = NoVal \/ ~is_desired_format(datetime_str)
    THEN JpgsChoose(datetime_str, jpgs_get_exif_datetime(W, f))
    ELSE datetime_str

JpgsEvent(W, f, datetime_str, m) ==
    [W |-> m.W,
     ev |-> [NoEvent EXCEPT !.f = f, !.src = LocOf(W, f),
                            !.kind = IF m.ret = NoLoc THEN "inplace" ELSE "moved",
                            !.lit = m.lit, !.fin = m.ret, !.resolved = datetime_str]]

JpgsMove(W, f, datetime_str) ==
    IF datetime_str = NoVal
    THEN [W |-> W, ev |-> [NoEvent EXCEPT !.f = f, !.src = LocOf(W, f),
                                          !.kind = "unresolved"]]
    ELSE JpgsEvent(W, f, datetime_str, move_file_to_date_folder(W, f, datetime_str))

\* Lines 216-228: the body of the loop of process_files for file f.
JpgsFileStep(W, f) ==
    IF ~is_jpeg_extension(W.files[f].name)
    THEN [W |-> W, ev |-> [NoEvent EXCEPT !.f = f, !.src = LocOf(W, f), !.kind = "notmedia"]]
    ELSE JpgsMove(W, f, JpgsDatetime(W, f,
                            get_datetime_from_filename(W.files[f].name.stem)))

\* A walk that comes back to a directory without sub-directories after it has
\* handled its files.
WalkInto_again(scr, W, d) ==
    IF SubdirsOf(W, d) = {} THEN {d}
    ELSE {x \in SubdirsOf(W, d) :
             IF scr = "jpgs" THEN Basename(x) # "@eaDir" ELSE ~IsSpecialName(Basename(x))}

\* The sub-directories os.walk descends into: Rename-Jpgs drops the names that
\* start with "@" (line 214), the ledger scripts those that do not start with
\* a letter or a digit.
WalkInto(scr, W, d) ==
    {x \in SubdirsOf(W, d) :
        IF scr = "jpgs" THEN Basename(x) # "@eaDir" ELSE ~IsSpecialName(Basename(x))}

\* delete_empty_folders of Rename-Jpgs: os.walk(directory, topdown=False) lists
\* a directory before it walks its sub-directories, so the directories it
\* removes are those that were empty when the walk began.
JpgsEmptyFolders(W, directory) ==
    {d \in W.dirs : /\ Len(d) >= Len(directory)
                    /\ SubSeq(d, 1, Len(directory)) = directory
                    /\ SubdirsOf(W, d) = {}
                    /\ FilesIn(W, d) = {}}

\* os.walk(start_directory) begins.
WalkStart ==
    /\ script \in {"jpgs", "addexif", "pngs"} /\ pc = "start"
    /\ walk' = <<start>>
    /\ pc' = "walk"
    /\ UNCHANGED <<ledgerVars, syncVars, script, files, dirs, tags, start, cwd, init0, run, folders,
                   pending, ret, ev, moved, faults, clean, interrupted>>

\* os.walk yields the next directory: its files, and its sub-directories to
\* walk after it.
WalkDir ==
    /\ script \in {"jpgs", "addexif", "pngs"} /\ pc = "walk" /\ walk # <<>>
    /\ IF Head(walk) \notin dirs
       THEN /\ walk' = Tail(walk)
            /\ UNCHANGED <<pending, pc, ret>>
       ELSE /\ walk' = SetToSeq(WalkInto(script, World, Head(walk))) \o Tail(walk)
            /\ pending' = FilesIn(World, Head(walk))
            /\ ret' = "walk"
            /\ pc' = "files"
    /\ UNCHANGED <<ledgerVars, syncVars, script, files, dirs, tags, start, cwd, init0, run, folders,
                   ev, moved, faults, clean, interrupted>>

\* Lines 216-228: one file of the loop of process_files.
JpgsFile ==
    /\ script = "jpgs" /\ pc = "files"
    /\ IF pending = {}
       THEN /\ pc' = ret
            /\ UNCHANGED <<files, dirs, tags, pending, ev, moved, seen>>
       ELSE \E f \in pending : \E r \in {JpgsFileStep(World, f)} :
            /\ SetWorld(r.W)
            /\ pending' = pending \ {f}
            /\ ev' = r.ev
            /\ moved' = IF LocOf(r.W, f) # LocOf(World, f) THEN moved \cup {f} ELSE moved
            /\ seen' = seen \cup {f}
            /\ UNCHANGED pc
    /\ UNCHANGED <<syncVars, ledger, handled, procs, script, start, cwd, init0, run, folders, walk,
                   ret, faults, clean, interrupted>>

\* Line 241: delete_empty_folders(start_directory) after process_files.
JpgsDelete ==
    /\ script = "jpgs" /\ pc = "walk" /\ walk = <<>>
    /\ dirs' = dirs \ JpgsEmptyFolders(World, start)
    /\ pc' = "done"
    /\ clean' = clean + 1
    /\ UNCHANGED <<ledgerVars, syncVars, script, files, tags, start, cwd, init0, run, folders, walk,
                   pending, ret, ev, moved, faults, interrupted>>

(***************************************************************************)
(* shared_methods.delete_empty_folders                                     *)
(***************************************************************************)
\* p is the path d or lies below it
IsUnder(p, d) == Len(p) >= Len(d) /\ SubSeq(p, 1, Len(d)) = d

\* The directories the walk calls shutil.rmtree on.  os.walk(topdown=False)
\* lists a directory before it walks its sub-directories, and the names that
\* start with @ . $ ~ are dropped from dirnames only after the walk has used
\* them: every directory is visited, and one without files whose
\* sub-directories all have such names counts as empty.
RmtreeRoots(W, directory) ==
    {d \in W.dirs : /\ IsUnder(d, directory)
                    /\ FilesIn(W, d) = {}
                    /\ \A x \in SubdirsOf(W, d) : IsSpecialName(Basename(x))}

\* delete_empty_folders(directory, logger): shutil.rmtree removes each such
\* directory with everything below it.
delete_empty_folders(W, directory) ==
    [W EXCEPT
        !.dirs = {d \in @ : ~\E r \in RmtreeRoots(W, directory) : IsUnder(d, r)},
        !.files = [f \in FileIds |->
                      IF W.files[f].alive
                         /\ \E r \in RmtreeRoots(W, directory) : IsUnder(W.files[f].dir, r)
                      THEN NoFile ELSE W.files[f]]]

\* delete_empty_folders is called on the start directory.
SharedDelete ==
    /\ script = "prune" /\ pc = "start"
    /\ \E W \in {delete_empty_folders(World, start)} : SetWorld(W)
    /\ pc' = "done"
    /\ clean' = clean + 1
    /\ UNCHANGED <<ledgerVars, syncVars, script, start, cwd, init0, run, folders, walk, pending, ret,
                   ev, moved, faults, interrupted>>

(***************************************************************************)
(* The ledger: has_been_processed and record_db_update of shared_methods,  *)
(* and the loops of Add-Missing-EXIF.py and Find-PNGs-as-JPGs.py.          *)
(***************************************************************************)
SHARED_PHOTO_EXTENSIONS == {".png", ".jpg", ".jpeg", ".gif"}

Row(file_name, new_file_name) == [file_name |-> file_name, new_file_name |-> new_file_name]

\* A lookup that finds nothing.
has_been_processed_never(rows, columns, value) == FALSE

\* has_been_processed(conn, table, columns, value): a single value is looked
\* up in every column of `columns`, joined with OR.
has_been_processed(rows, columns, value) ==
    \E row \in rows : \E col \in columns : row[col] = value

\* A record that replaces the table by the new row.
record_db_update_replace(rows, row) == [ok |-> TRUE, rows |-> {row}]

\* record_db_update: `with conn.cursor() as c` raises for a sqlite3
\* connection (its cursors are no context managers) before any statement is
\* executed, so no row is stored and the except clause is entered.
record_db_update(rows, row) == [ok |-> FALSE, rows |-> rows]

\* A record failure that lets the loop go on.
RecordOutcome_continue(r) == "next"

\* Lines 661-662 of record_db_update: the error is logged and sys.exit(1) ends
\* the run; SystemExit passes the callers' `except Exception`.
RecordOutcome(r) == IF r.ok THEN "next" ELSE "exit"

\* The digits of the date groups of the model, as numbers.
Num(s) ==
    CASE s = "2019" -> 2019 [] s = "2020" -> 2020
      [] s = "01" -> 1 [] s = "02" -> 2 [] s = "03" -> 3 [] s = "05" -> 5
      [] s = "10" -> 10
      [] OTHER -> 0

\* get_date_object: the date part of the string as a date (a number that
\* orders the dates of the model).
get_date_object(s) == Num(s.ts.year) * 10000 + Num(s.ts.month) * 100 + Num(s.ts.day)

\* datetime.strptime accepts the date part
DateParses(s) == s.ts.year # "0000" /\ s.ts.month # "00" /\ s.ts.day # "00"

\* is_first_date_more_recent(date_str1, date_str2): "raise" when strptime
\* rejects one of the dates.
is_first_date_more_recent(date_str1, date_str2) ==
    IF date_str1 = NoVal \/ date_str2 = NoVal THEN "true"
    ELSE IF ~DatetimeSearch(date_str1) \/ ~DatetimeSearch(date_str2) THEN "true"
    ELSE IF ~DateParses(date_str1) \/ ~DateParses(date_str2) THEN "raise"
    ELSE IF get_date_object(date_str1) > get_date_object(date_str2) THEN "true"
    ELSE "false"

\* What the step of one file of a ledger script did:
\*   W, rows - the tree, the tags and the ledger after it
\*   out     - "next": the loop goes on; "exit": sys.exit(1); "crash": an
\*             exception left process_images
\*   past    - the file was handled past the ledger check
\*   reach   - record_db_update was called for the file
ImgResult(W, rows, f, kind, out, past, reach, used) ==
    [W |-> W, rows |-> rows, out |-> out, past |-> past, reach |-> reach, used |-> used,
     ev |-> [NoEvent EXCEPT !.f = f, !.kind = kind]]

ImgRecorded(W, f, rec, used) ==
    ImgResult(W, rec.rows, f, IF rec.ok THEN "recorded" ELSE "recfail",
              RecordOutcome(rec), TRUE, TRUE, used)

\* A write step that records the file whether the tag was written or not.
AddExifWrite_always(W, rows, f, w) ==
    ImgRecorded(w.W, f, record_db_update(rows, Row(W.files[f].name, W.files[f].name)),
                w.used)

\* Lines 62-65 of Add-Missing-EXIF: the tag is written, then the row recorded.
AddExifWrite(W, rows, f, w) ==
    IF w.ret
    THEN ImgRecorded(w.W, f, record_db_update(rows,
                                 Row(W.files[f].name, W.files[f].name)), w.used)
    ELSE ImgResult(w.W, rows, f, "addfail", "next", TRUE, FALSE, w.used)

\* Lines 57-74 of Add-Missing-EXIF.  exiftool stores the date of the name in
\* the form of an EXIF date.
AddExifCompare(W, rows, f, more_recent, fault) ==
    IF more_recent = "raise"
    THEN ImgResult(W, rows, f, "crash", "crash", TRUE, FALSE, FALSE)
    ELSE IF more_recent = "true"
    THEN AddExifWrite(W, rows, f,
             add_exif_data(W, LocOf(W, f), DATETIME_ORIGINAL,
                           ExifStr(W.files[f].name.stem.ts), fault = "dto"))
    ELSE ImgRecorded(W, f, record_db_update(rows,
                               Row(W.files[f].name, W.files[f].name)), FALSE)

\* Lines 45-76 of Add-Missing-EXIF: the body of the loop for file f.
AddExifFileStep(W, rows, f, fault) ==
    IF Lower(W.files[f].name.ext) \notin SHARED_PHOTO_EXTENSIONS
    THEN ImgResult(W, rows, f, "notmedia", "next", FALSE, FALSE, FALSE)
    ELSE IF has_been_processed(rows, {"file_name"}, W.files[f].name)
    THEN ImgResult(W, rows, f, "skipped", "next", FALSE, FALSE, FALSE)
    ELSE IF ~DatetimeSearch(W.files[f].name.stem)
    THEN ImgResult(W, rows, f, "nodate", "next", TRUE, FALSE, FALSE)
    ELSE AddExifCompare(W, rows, f,
             is_first_date_more_recent(get_exif_data(W, f, DATETIME_ORIGINAL),
                                       W.files[f].name.stem),
             fault)

\* Lines 56-65 of Find-PNGs-as-JPGs: the file is renamed, then the row recorded.
PngsRenamed(W, rows, f, mv) ==
    IF mv.ret # NoLoc
    THEN ImgRecorded(mv.W, f, record_db_update(rows, Row(W.files[f].name, mv.ret.name)),
                     mv.used)
    ELSE ImgResult(mv.W, rows, f, "movefail", "next", TRUE, FALSE, mv.used)

PngsRename(W, rows, f, extension, fault) ==
    PngsRenamed(W, rows, f,
        move_or_rename_file(W, f, LocOf(W, f),
            Loc(W.files[f].dir, MkName(W.files[f].name.stem, extension)), fault))

\* Lines 49-75 of Find-PNGs-as-JPGs.  file_type.lower() raises when exiftool
\* gave no FileType.
PngsCompare(W, rows, f, file_extension, file_type, fault) ==
    IF file_extension \in {".jpg", ".jpeg", ".png"} /\ file_type = NoVal
    THEN ImgResult(W, rows, f, "crash", "crash", TRUE, FALSE, FALSE)
    ELSE IF file_extension \in {".jpg", ".jpeg"} /\ file_type = Plain("PNG")
    THEN PngsRename(W, rows, f, ".png", fault)
    ELSE IF file_extension = ".png" /\ file_type = Plain("JPEG")
    THEN PngsRename(W, rows, f, ".jpeg", fault)
    ELSE ImgRecorded(W, f, record_db_update(rows,
                               Row(W.files[f].name, W.files[f].name)), FALSE)

\* Lines 43-77 of Find-PNGs-as-JPGs: the body of the loop for file f.
PngsFileStep(W, rows, f, fault) ==
    IF Lower(W.files[f].name.ext) \notin SHARED_PHOTO_EXTENSIONS
    THEN ImgResult(W, rows, f, "notmedia", "next", FALSE, FALSE, FALSE)
    ELSE IF has_been_processed(rows, {"file_name", "new_file_name"}, W.files[f].name)
    THEN ImgResult(W, rows, f, "skipped", "next", FALSE, FALSE, FALSE)
    ELSE PngsCompare(W, rows, f, Lower(W.files[f].name.ext),
                     get_exif_data(W, f, "FileType"), fault)

\* One file of the loop of process_images of the two ledger scripts.
ImageFile ==
    /\ script \in {"addexif", "pngs"} /\ pc = "files"
    /\ IF pending = {}
       THEN /\ pc' = ret
            /\ UNCHANGED <<files, dirs, tags, pending, ev, moved, faults, ledger, seen,
                           handled>>
       ELSE \E f \in pending : \E fault \in {"none", "dto", "mkdir", "rename"} :
            \E r \in {IF script = "addexif"
                      THEN AddExifFileStep(World, ledger, f, fault)
                      ELSE PngsFileStep(World, ledger, f, fault)} :
            /\ fault # "none" => (r.used /\ faults < MaxFaults)
            /\ SetWorld(r.W)
            /\ ledger' = r.rows
            /\ pending' = pending \ {f}
            /\ ev' = [r.ev EXCEPT !.src = LocOf(World, f), !.fin = LocOf(r.W, f),
                                  !.fault = fault]
            /\ moved' = IF LocOf(r.W, f) # LocOf(World, f) THEN moved \cup {f} ELSE moved
            /\ seen' = IF r.past THEN seen \cup {f} ELSE seen
            /\ handled' = IF r.reach /\ handled[f] = 0
                          THEN [handled EXCEPT ![f] = run] ELSE handled
            /\ faults' = IF fault # "none" THEN faults + 1 ELSE faults
            /\ pc' = CASE r.out = "exit" -> "exited"
                       [] r.out = "crash" -> "crashed"
                       [] OTHER -> pc
    /\ UNCHANGED <<syncVars, procs, script, start, cwd, init0, run, folders, walk, ret, clean, interrupted>>

\* process_images returns: the walk is over.
ImagesDone ==
    /\ script \in {"addexif", "pngs"} /\ pc = "walk" /\ walk = <<>>
    /\ pc' = "done"
    /\ clean' = clean + 1
    /\ UNCHANGED <<ledgerVars, syncVars, script, files, dirs, tags, start, cwd, init0, run, folders,
                   walk, pending, ret, ev, moved, faults, interrupted>>

\* The process of a ledger script is killed.
Kill ==
    /\ script \in {"addexif", "pngs"} /\ pc \in {"walk", "files"}
    /\ pc' = "killed"
    /\ UNCHANGED <<ledgerVars, syncVars, script, files, dirs, tags, start, cwd, init0, run, folders,
                   walk, pending, ret, ev, moved, faults, clean, interrupted>>

(***************************************************************************)
(* Two runs of Find-PNGs-as-JPGs.py at the same time on one tree and one   *)
(* ledger.  Each run is a process of its own; the steps of process_images  *)
(* that touch the ledger or the tree are separate steps: the listing of a  *)
(* directory, the ledger check of a file, and the work on it with its      *)
(* record.                                                                 *)
(***************************************************************************)
ProcIds == {1, 2}

\* pc: "off", "walk", "check", "work", "done", "exited", "crashed"
\* walk: the directories os.walk has still to list; todo: the paths of the
\* current listing not yet visited; cur: the path that passed the check.
NoProc == [pc |-> "off", walk |-> <<>>, todo |-> {}, cur |-> NoLoc]

\* A ledger check that also skips a file another run is working on.
PngsCheck_exclusive(rows, name) ==
    IF \/ has_been_processed(rows, {"file_name", "new_file_name"}, name)
       \/ \E q \in ProcIds : procs[q].cur # NoLoc /\ procs[q].cur.name = name
    THEN "skipped" ELSE "pass"

\* Line 45 of Find-PNGs-as-JPGs: the ledger check of a basename.
PngsCheck(rows, name) ==
    IF has_been_processed(rows, {"file_name", "new_file_name"}, name)
    THEN "skipped" ELSE "pass"

\* __main__: the run of process p begins with os.walk(start_directory).
ConcStart(p) ==
    /\ script = "pngs" /\ procs[p].pc = "off"
    /\ procs' = [procs EXCEPT ![p] = [NoProc EXCEPT !.pc = "walk", !.walk = <<start>>]]
    /\ UNCHANGED <<syncVars, script, files, dirs, tags, start, cwd, init0, run, pc, folders, walk,
                   pending, ret, ev, moved, faults, clean, interrupted, ledger, seen, handled>>

\* Lines 39-42: os.walk yields the next directory; its sub-directories are
\* filtered, its files are those with a photo extension.
ConcList(p) ==
    /\ procs[p].pc = "walk"
    /\ procs' = [procs EXCEPT ![p] =
           IF procs[p].walk = <<>> THEN [@ EXCEPT !.pc = "done"]
           ELSE IF Head(procs[p].walk) \notin dirs THEN [@ EXCEPT !.walk = Tail(@)]
           ELSE [@ EXCEPT
                   !.pc = "check",
                   !.walk = SetToSeq(WalkInto(script, World, Head(procs[p].walk)))
                            \o Tail(@),
                   !.todo = {LocOf(World, f) : f \in
                               {g \in FilesIn(World, Head(procs[p].walk)) :
                                  Lower(files[g].name.ext) \in SHARED_PHOTO_EXTENSIONS}}]]
    /\ UNCHANGED <<syncVars, script, files, dirs, tags, start, cwd, init0, run, pc, folders, walk,
                   pending, ret, ev, moved, faults, clean, interrupted, ledger, seen, handled>>

\* Lines 43-47: the next file of the listing and its ledger check.
ConcCheck(p) ==
    /\ procs[p].pc = "check"
    /\ IF procs[p].todo = {}
       THEN procs' = [procs EXCEPT ![p].pc = "walk"]
       ELSE \E file_path \in procs[p].todo :
            procs' = [procs EXCEPT ![p] =
                IF PngsCheck(ledger, file_path.name) = "skipped"
                THEN [@ EXCEPT !.todo = @ \ {file_path}]
                ELSE [@ EXCEPT !.todo = @ \ {file_path}, !.pc = "work",
                               !.cur = file_path]]
    /\ UNCHANGED <<syncVars, script, files, dirs, tags, start, cwd, init0, run, pc, folders, walk,
                   pending, ret, ev, moved, faults, clean, interrupted, ledger, seen, handled>>

\* Lines 49-75 for a path whose file is gone (the other run renamed it):
\* exiftool fails, get_exif_data returns None, and file_type.lower() raises
\* for a .jpg, .jpeg or .png name; any other name goes to record_db_update.
ConcGone(rows, file_path) ==
    IF Lower(file_path.name.ext) \in {".jpg", ".jpeg", ".png"} THEN "crash"
    ELSE RecordOutcome(record_db_update(rows, Row(file_path.name, file_path.name)))

\* Lines 49-75: the work on the file that passed the check, and its record.
ConcWork(p) ==
    /\ procs[p].pc = "work"
    /\ IF FilesAt(World, procs[p].cur) = {}
       THEN /\ procs' = [procs EXCEPT
                   ![p].pc = IF ConcGone(ledger, procs[p].cur) = "crash"
                             THEN "crashed" ELSE "exited",
                   ![p].cur = NoLoc]
            /\ UNCHANGED <<files, dirs, tags, ledger, faults>>
       ELSE \E f \in FilesAt(World, procs[p].cur) : \E fault \in {"none", "rename"} :
            \E r \in {PngsCompare(World, ledger, f, Lower(files[f].name.ext),
                                   get_exif_data(World, f, "FileType"), fault)} :
            /\ fault # "none" => (r.used /\ faults < MaxFaults)
            /\ SetWorld(r.W)
            /\ ledger' = r.rows
            /\ faults' = IF fault # "none" THEN faults + 1 ELSE faults
            /\ procs' = [procs EXCEPT
                   ![p].pc = CASE r.out = "exit" -> "exited"
                               [] r.out = "crash" -> "crashed"
                               [] OTHER -> "check",
                   ![p].cur = NoLoc]
    /\ UNCHANGED <<syncVars, script, start, cwd, init0, run, pc, folders, walk, pending, ret, ev,
                   moved, clean, interrupted, seen, handled>>

(***************************************************************************)
(* The trees, the metadata and the ledgers a run starts from.              *)
(***************************************************************************)
tA == TS("2020", "01", "01", "10", "00", "00")
tB == TS("2020", "01", "01", "14", "30", "00")
tA0 == TS("2020", "01", "01", "00", "00", "00")
tZ == TS("0000", "00", "00", "00", "00", "00")
tF0 == TS("0000", "01", "02", "14", "30", "00")
tC == TS("2019", "05", "10", "09", "15", "22")
tD == TS("2020", "02", "03", "08", "00", "00")

Proto(stem, ext, t) == [name |-> MkName(stem, ext), tags |-> t]

\* The files of the model: a name and the tags the file carries.
SortProtos ==
    << Proto(Plain("holiday"), ".jpg", [NoTags EXCEPT !.DateTimeOriginal = ExifStr(tA)]),
       Proto(Plain("beach"), ".JPG", [NoTags EXCEPT !.DateTimeOriginal = ExifStr(tA),
                                                    !.SubSecTimeOriginal = <<1, 2, 3, 4>>]),
       Proto(Plain("unset"), ".jpg", [NoTags EXCEPT !.DateTimeOriginal = ExifStr(tZ)]),
       Proto(Plain("clip"), ".mp4", NoTags),
       Proto(Plain("movie"), ".mp4", [NoTags EXCEPT !.CreationDate = ExifStr(tC)]),
       Proto(Plain("scan"), ".jpg", [NoTags EXCEPT !.FileModifyDate = ExifStr(tD)]),
       Proto(Plain("odd"), ".jpg", [NoTags EXCEPT !.DateTimeOriginal = Plain("unknown")]),
       Proto(Plain("notes"), ".txt", NoTags),
       Proto(DashStr(tB, <<>>), ".jpg", [NoTags EXCEPT !.DateTimeOriginal = ExifStr(tA0)]),
       Proto(DashStr(tB, <<>>), ".jpeg", [NoTags EXCEPT !.DateTimeOriginal = ExifStr(tZ)]),
       Proto(DashStr(tF0, <<>>), ".jpg", [NoTags EXCEPT !.DateTimeOriginal = ExifStr(tZ)]),
       Proto([DashStr(tC, <<>>) EXCEPT !.pre = TRUE], ".jpg", NoTags),
       Proto(DashStr(tA, <<0, 0, 0>>), ".jpg", NoTags),
       Proto(DashStr(tA, <<1, 2, 3, 4>>), ".jpg", NoTags),
       Proto([DashStr(tA, <<0, 0, 0>>) EXCEPT !.idx = <<1>>], ".jpg", NoTags) >>

\* Files of Rename-Jpgs: names with and without a timestamp, with fewer than
\* three sub-second digits, with a collision suffix.
JpgsProtos ==
    << Proto(Plain("holiday"), ".jpg", [NoTags EXCEPT !.DateTimeOriginal = ExifStr(tA)]),
       Proto(Plain("beach"), ".JPG", [NoTags EXCEPT !.DateTimeOriginal = ExifStr(tA)]),
       Proto(Plain("unset"), ".jpg", [NoTags EXCEPT !.DateTimeOriginal = ExifStr(tZ)]),
       Proto(Plain("notes"), ".txt", NoTags),
       Proto(Plain("clip"), ".jpg", NoTags),
       Proto(MkStr(FALSE, "compact", tB, <<>>, FALSE, <<>>, ""), ".jpeg",
             [NoTags EXCEPT !.DateTimeOriginal = ExifStr(tA0)]),
       Proto(DashStr(tA, <<1, 2>>), ".jpg", NoTags),
       Proto(DashStr(tA, <<0, 0, 0>>), ".jpg", NoTags),
       Proto([DashStr(tA, <<0, 0, 0>>) EXCEPT !.idx = <<1>>], ".jpg", NoTags),
       Proto([DashStr(tA, <<0, 0, 0>>) EXCEPT !.idx = <<2>>], ".jpg", NoTags),
       Proto(Plain("scan"), ".jpg", [NoTags EXCEPT !.DateTimeOriginal = ExifStr(tC)]) >>

\* Files that resolve to one destination name, by metadata and by name.
MoveProtos ==
    << Proto(Plain("holiday"), ".jpg", [NoTags EXCEPT !.DateTimeOriginal = ExifStr(tA)]),
       Proto(Plain("beach"), ".jpg", [NoTags EXCEPT !.DateTimeOriginal = ExifStr(tA)]),
       Proto(DashStr(tA, <<0, 0, 0>>), ".jpg", NoTags),
       Proto([DashStr(tA, <<0, 0, 0>>) EXCEPT !.idx = <<1>>], ".jpg", NoTags) >>

\* A file to rename by its metadata and one whose name has the desired form.
SyncProtos ==
    << Proto(Plain("holiday"), ".jpg", [NoTags EXCEPT !.DateTimeOriginal = ExifStr(tA)]),
       Proto(DashStr(tA, <<0, 0, 0>>), ".jpg", NoTags) >>

\* A file that gets a Title and a file whose DateTimeOriginal is rewritten.
ResumeProtos ==
    << Proto(Plain("holiday"), ".jpg", [NoTags EXCEPT !.DateTimeOriginal = ExifStr(tA)]),
       Proto(DashStr(tB, <<>>), ".jpg", [NoTags EXCEPT !.DateTimeOriginal = ExifStr(tA0)]) >>

\* Files whose name and metadata both carry a timestamp.
HourProtos ==
    << Proto(DashStr(tB, <<>>), ".jpg", [NoTags EXCEPT !.DateTimeOriginal = ExifStr(tA0)]),
       Proto(DashStr(tB, <<>>), ".jpeg", [NoTags EXCEPT !.DateTimeOriginal = ExifStr(tZ)]),
       Proto(DashStr(tF0, <<>>), ".jpg", [NoTags EXCEPT !.DateTimeOriginal = ExifStr(tZ)]),
       Proto(DashStr(tB, <<0, 0, 0>>), ".jpg",
             [NoTags EXCEPT !.DateTimeOriginal = ExifStr(tA0)]),
       Proto(MkStr(FALSE, "compact", tB, <<>>, FALSE, <<>>, ""), ".mp4",
             [NoTags EXCEPT !.CreateDate = ExifStr(tA0)]),
       Proto(DashStr(tA0, <<>>), ".jpg", [NoTags EXCEPT !.DateTimeOriginal = ExifStr(tA)]),
       Proto(Plain("holiday"), ".jpg", [NoTags EXCEPT !.DateTimeOriginal = ExifStr(tA0)]),
       Proto(DashStr(tB, <<>>), ".jpg", NoTags) >>

\* Files whose tags of the fallback chain differ: an unset primary tag before
\* a set secondary tag, both set, the secondary tag alone, a video with its
\* third tag alone, a video with all three.
FallbackProtos ==
    << Proto(Plain("unset"), ".jpg", [NoTags EXCEPT !.DateTimeOriginal = ExifStr(tZ),
                                                    !.FileModifyDate = ExifStr(tD)]),
       Proto(Plain("holiday"), ".jpg", [NoTags EXCEPT !.DateTimeOriginal = ExifStr(tA),
                                                      !.FileModifyDate = ExifStr(tD)]),
       Proto(Plain("scan"), ".jpg", [NoTags EXCEPT !.FileModifyDate = ExifStr(tD),
                                                   !.CreateDate = ExifStr(tC)]),
       Proto(Plain("clip"), ".mp4", [NoTags EXCEPT !.DateTimeOriginal = ExifStr(tC)]),
       Proto(Plain("movie"), ".mp4", [NoTags EXCEPT !.CreateDate = ExifStr(tA),
                                                    !.CreationDate = ExifStr(tC),
                                                    !.DateTimeOriginal = ExifStr(tD)]),
       Proto(Plain("beach"), ".mov", [NoTags EXCEPT !.CreationDate = ExifStr(tC),
                                                    !.DateTimeOriginal = ExifStr(tD)]) >>

\* Files of the ledger scripts.
LedgerProtos ==
    << Proto(DashStr(tA, <<>>), ".jpg", [NoTags EXCEPT !.FileType = Plain("JPEG")]),
       Proto(DashStr(tC, <<>>), ".png", [NoTags EXCEPT !.FileType = Plain("JPEG"),
                                                      !.DateTimeOriginal = ExifStr(tD)]),
       Proto(Plain("holiday"), ".jpg", [NoTags EXCEPT !.FileType = Plain("PNG")]),
       Proto(Plain("holiday"), ".png", [NoTags EXCEPT !.FileType = Plain("PNG")]),
       Proto(DashStr(tD, <<>>), ".gif", [NoTags EXCEPT !.DateTimeOriginal = ExifStr(tC)]),
       Proto(Plain("notes"), ".txt", NoTags) >>

\* Files of the walks over trees with special directories.
WalkProtos ==
    << Proto(Plain("holiday"), ".jpg", [NoTags EXCEPT !.DateTimeOriginal = ExifStr(tA)]),
       Proto(Plain("beach"), ".JPG", [NoTags EXCEPT !.DateTimeOriginal = ExifStr(tD)]),
       Proto(Plain("movie"), ".mp4", [NoTags EXCEPT !.CreationDate = ExifStr(tC)]),
       Proto(DashStr(tA, <<0, 0, 0>>), ".jpg", NoTags) >>

\* The rows a ledger may hold when a run starts.
LedgerRows ==
    { Row(MkName(DashStr(tA, <<>>), ".jpg"), MkName(DashStr(tA, <<>>), ".jpg")),
      Row(MkName(Plain("holiday"), ".jpg"), MkName(Plain("holiday"), ".png")) }

\* The table of Add-Missing-EXIF has one name column.
AddExifRows ==
    { Row(MkName(DashStr(tA, <<>>), ".jpg"), MkName(DashStr(tA, <<>>), ".jpg")),
      Row(MkName(DashStr(tD, <<>>), ".gif"), MkName(DashStr(tD, <<>>), ".gif")) }

Starts == {<<"lib">>, <<"lib", "2020">>, <<"lib", "2020", "01">>}

\* The directories a file of the initial tree may lie in.
FileDirs(st) ==
    <<st, Join(st, "Misc"), Join(Join(st, "Misc"), "sub")>>
      \o (IF st = <<"lib">> THEN << <<"lib", "2020", "01">> >> ELSE <<>>)

FlatDirs(st) ==
    <<st, Join(st, "Misc")>>
      \o (IF st = <<"lib">> THEN << <<"lib", "2020", "01">> >> ELSE <<>>)

PlainDirs(st) == <<st, Join(st, "Misc")>>

\* A tree with directories whose names start with "@" and ".".
SpecialDirs(st) ==
    <<st, Join(st, "Misc"), Join(st, "@eaDir"), Join(Join(st, "Misc"), ".thumbs"),
      Join(Join(st, "Misc"), "sub")>>

\* A tree with year folders below a folder that is not one.
YearDirs(st) ==
    <<Join(Join(Join(st, "Misc"), "2020"), "01"), Join(Join(st, "Misc"), "2020"),
      Join(Join(st, "2020"), "01"), Join(Join(st, "Misc"), "sub")>>

YearExtras(st) == {Join(Join(st, "Misc"), "2019")}

\* Directories that may exist beside those the files need.
ExtraDirs(st) == {Join(st, "Albums")}

NoExtraDirs(st) == {}

\* The initial tree: file k is option pick[k], a file of protos in a directory
\* of fdirs (0: there is no file k); the picks are ordered, which leaves out
\* nothing but permutations of the file ids.
InitTree(protos, st, fdirs, pick, extra) ==
    LET fl == [k \in FileIds |->
                 IF pick[k] = 0 THEN NoFile
                 ELSE [alive |-> TRUE, dir |-> fdirs[((pick[k] - 1) % Len(fdirs)) + 1],
                       name |-> protos[((pick[k] - 1) \div Len(fdirs)) + 1].name]]
        tg == [k \in FileIds |->
                 IF pick[k] = 0 THEN NoTags
                 ELSE protos[((pick[k] - 1) \div Len(fdirs)) + 1].tags]
        ds == UNION {Prefixes(fl[k].dir) : k \in {j \in FileIds : pick[j] # 0}}
                \cup Prefixes(st) \cup extra
    IN [files |-> fl, dirs |-> ds, tags |-> tg]

DistinctPaths(W) ==
    \A j, k \in FileIds :
        (j # k /\ W.files[j].alive /\ W.files[k].alive) => LocOf(W, j) # LocOf(W, k)

\* The directories of a layout that may hold files, and those that may exist
\* without files.
LayoutDirs(layout, st) ==
    CASE layout = "tree" -> FileDirs(st)
      [] layout = "flat" -> FlatDirs(st)
      [] layout = "special" -> SpecialDirs(st)
      [] layout = "years" -> YearDirs(st)
      [] OTHER -> PlainDirs(st)

LayoutExtras(layout, st) ==
    CASE layout \in {"tree", "special"} -> ExtraDirs(st)
      [] layout = "years" -> YearExtras(st)
      [] OTHER -> NoExtraDirs(st)

InitWith(scr, protos, starts, layout, ledgers) ==
    \E st \in starts, c \in (IF scr = "sort" THEN BOOLEAN ELSE {TRUE}) :
    \E extra \in SUBSET LayoutExtras(layout, st) :
    \E pick \in [FileIds -> 0..(Len(protos) * Len(LayoutDirs(layout, st)))] :
    \E W \in {InitTree(protos, st, LayoutDirs(layout, st), pick, extra)} :
    \E rows \in ledgers :
        /\ pick[1] # 0
        /\ \A k \in FileIds : k > 1 => (pick[k] = 0 \/ pick[k] >= pick[k - 1])
        /\ \A k \in FileIds : k > 1 => (pick[k - 1] = 0 => pick[k] = 0)
        /\ DistinctPaths(W)
        /\ script = scr
        /\ files = W.files /\ dirs = W.dirs /\ tags = W.tags
        /\ start = st /\ cwd = c
        /\ init0 = W
        /\ run = 1 /\ pc = "start"
        /\ folders = <<>> /\ walk = <<>> /\ pending = {} /\ ret = "done"
        /\ ev = NoEvent /\ moved = {} /\ faults = 0 /\ clean = 0 /\ interrupted = FALSE
        /\ ledger = rows /\ seen = {} /\ handled = [k \in FileIds |-> 0]
        /\ procs = [p \in ProcIds |-> NoProc]
        /\ year_folders = <<>> /\ sync = <<>>

(***************************************************************************)
(* The specifications.                                                     *)
(***************************************************************************)
\* Sort-N-Rename-Media started at a library root, a year or a month directory.
InitSort == InitWith("sort", SortProtos, Starts, "tree", {{}})

NextSort == PfStart \/ PfFolder \/ PfWalk \/ RfdFile \/ NextRun

SpecSort == InitSort /\ [][NextSort]_vars

\* Rename-Jpgs.
InitJpgs == InitWith("jpgs", JpgsProtos, Starts, "flat", {{}})

NextJpgs == WalkStart \/ WalkDir \/ JpgsFile \/ JpgsDelete \/ NextRun

SpecJpgs == InitJpgs /\ [][NextJpgs]_vars

\* Both movers on trees whose files resolve to one destination.
InitMove ==
    \/ InitWith("sort", MoveProtos, {<<"lib">>}, "flat", {{}})
    \/ InitWith("jpgs", MoveProtos, {<<"lib">>}, "flat", {{}})

NextMove ==
    \/ PfStart \/ PfFolder \/ PfWalk \/ RfdFile
    \/ WalkStart \/ WalkDir \/ JpgsFile \/ JpgsDelete
    \/ NextRun

SpecMove == InitMove /\ [][NextMove]_vars

\* Sort-N-Rename-Media on a tree with year folders below a folder.
InitSync == InitWith("sort", SyncProtos, {<<"lib">>}, "years", {{}})

NextSync == PfStart \/ PfFolder \/ PfWalk \/ PfSync \/ RfdFile \/ NextRun

SpecSync == InitSync /\ [][NextSync]_vars

\* Sort-N-Rename-Media killed inside the processing of a file and run again.
InitResume == InitWith("sort", ResumeProtos, {<<"lib">>}, "plain", {{}})

NextResume == NextSort \/ SortKill

SpecResume == InitResume /\ [][NextResume]_vars

\* Runs of Sort-N-Rename-Media and of Rename-Jpgs in which every call returns:
\* the program always takes its next step (weak fairness of ProgramStep).
\* Starting the program again is the operator's step and is not forced.  The
\* fairness is written with state predicates: a step of the program is a step
\* that changes the state and keeps `run`, and one is enabled exactly when the
\* run has not returned (every action of ProgramStep changes pc, walk, pending
\* or sync, and each control point other than "done" and "crashed" has a step).
InitTerminates ==
    \/ InitSync
    \/ InitWith("jpgs", SyncProtos, {<<"lib">>}, "flat", {{}})

ProgramStep ==
    \/ PfStart \/ PfFolder \/ PfWalk \/ PfSync \/ RfdFile
    \/ WalkStart \/ WalkDir \/ JpgsFile \/ JpgsDelete

NextTerminates == ProgramStep \/ NextRun

Returned == pc \in {"done", "crashed"}

SpecTerminates ==
    /\ InitTerminates /\ [][NextTerminates]_vars
    /\ ([]<>Returned \/ []<><<run' = run>>_vars)

\* Sort-N-Rename-Media on files whose name and metadata both carry a timestamp.
InitHour == InitWith("sort", HourProtos, {<<"lib">>}, "plain", {{}})

SpecHour == InitHour /\ [][NextSort]_vars

\* The ledger scripts.
InitLedger ==
    \/ InitWith("addexif", LedgerProtos, {<<"lib">>}, "plain",
                SUBSET AddExifRows)
    \/ InitWith("pngs", LedgerProtos, {<<"lib">>}, "plain",
                SUBSET LedgerRows)

NextLedger == WalkStart \/ WalkDir \/ ImageFile \/ ImagesDone \/ Kill \/ NextRun

SpecLedger == InitLedger /\ [][NextLedger]_vars

\* Sort-N-Rename-Media on files with several tags of the fallback chain.
InitFallback == InitWith("sort", FallbackProtos, {<<"lib">>}, "plain", {{}})

SpecFallback == InitFallback /\ [][NextSort]_vars

\* Two runs of Find-PNGs-as-JPGs at the same time.
InitConcurrent == InitWith("pngs", LedgerProtos, {<<"lib">>}, "plain", SUBSET LedgerRows)

NextConcurrent ==
    \E p \in ProcIds : ConcStart(p) \/ ConcList(p) \/ ConcCheck(p) \/ ConcWork(p)

SpecConcurrent == InitConcurrent /\ [][NextConcurrent]_vars

\* The tree walks of Sort-N-Rename-Media, of Rename-Jpgs and of
\* delete_empty_folders over trees with special directories.
InitWalk ==
    \/ InitWith("sort", WalkProtos, {<<"lib">>}, "special", {{}})
    \/ InitWith("jpgs", WalkProtos, {<<"lib">>}, "special", {{}})
    \/ InitWith("prune", WalkProtos, {<<"lib">>}, "special", {{}})

NextWalk ==
    \/ PfStart \/ PfFolder \/ PfWalk \/ RfdFile
    \/ WalkStart \/ WalkDir \/ JpgsFile \/ JpgsDelete
    \/ SharedDelete
    \/ NextRun

SpecWalk == InitWalk /\ [][NextWalk]_vars

(***************************************************************************)
(* The properties.                                                         *)
(***************************************************************************)
\* ^\d{4}-\d{2}-\d{2} \d{2}\.\d{2}\.\d{2}\.\d{3}\.\w+$ on a file name
IsCanonicalName(name) ==
    /\ name.stem.fmt = "dash" /\ ~name.stem.pre
    /\ Len(name.stem.micro) = 3 /\ ~name.stem.tail /\ name.stem.idx = <<>>
    /\ name.ext # ""

\* The basename is in the ledger, as previous or as new name.
InLedger(name) ==
    \E row \in ledger : row.file_name = name \/ row.new_file_name = name

\* C1: after one complete run, a second complete run moves or renames no
\* file (no tool or filesystem failure in either run).
C1_Idempotent ==
    (run = 2 /\ clean = 2 /\ faults = 0) => moved = {}

\* C2: every file of the initial tree still exists, and no two files share a
\* path: no move replaces an existing file, files that resolve to one
\* destination end under distinct names.
C2_NoDataLoss ==
    /\ \A f \in FileIds : init0.files[f].alive => files[f].alive
    /\ DistinctPaths(World)

\* C2 witness: a file was moved to a " (n)" name because its destination was
\* taken by another file.
C2_Collision ==
    /\ ev.kind = "moved" /\ ev.fin # ev.lit /\ ev.fin # ev.src
    /\ PathExists(World, ev.lit) /\ PathExists(World, ev.fin)

\* C3: a file whose resolved timestamp has year "0000" or month "00" is not
\* moved, and no destination path is built from that timestamp (checked on
\* the runs in which no tool fails).
C3_InvalidRejected ==
    (faults = 0 /\ ev.f # 0 /\ ev.resolved.fmt # "none"
        /\ (ev.resolved.ts.year = "0000" \/ ev.resolved.ts.month = "00"))
    => (ev.lit = NoLoc /\ ev.fin = NoLoc /\ LocOf(World, ev.f) = ev.src)

\* C4: the new basename of every file that was moved or renamed is canonical
\* (checked on the moves that met no collision, in runs in which no tool
\* fails).
C4_Canonical ==
    (faults = 0 /\ ev.kind = "moved" /\ LocOf(World, ev.f) # ev.src /\ ev.fin = ev.lit)
    => IsCanonicalName(files[ev.f].name)

\* C5: when no tag of the fallback chain yields a timestamp for a file, the
\* file stays where it is, no exception leaves its step and the run goes on.
C5_Isolated ==
    (script = "sort" /\ faults = 0 /\ ev.f # 0 /\ ev.kind \notin {"noext", "notmedia", "inplace"}
        /\ ~ev.fromName /\ ev.exif = NoVal)
    => (pc # "crashed" /\ LocOf(World, ev.f) = ev.src)

\* The timestamps of the hour reconciliation of a file step: the metadata
\* timestamp and the name both match the date pattern, the metadata hour is
\* "00" and the hour of the name is not.
HourCase ==
    /\ ev.f # 0
    /\ ev.exif.fmt # "none" /\ ev.src.name.stem.fmt # "none"
    /\ ev.exif.ts.hour = "00" /\ ev.src.name.stem.ts.hour # "00"

DateOf(t) == <<t.year, t.month, t.day>>
TimeOf(t) == <<t.hour, t.minute, t.second>>

\* C6 as it is written, for the steps in which no tool fails: in the hour
\* case the resolved timestamp has the time of the name and the date of the
\* metadata, the date of the name when the metadata year is "0000", and
\* DateTimeOriginal holds the merged timestamp.
C6_AsWritten ==
    (HourCase /\ ev.fault = "none") =>
        /\ TimeOf(ev.resolved.ts) = TimeOf(ev.src.name.stem.ts)
        /\ DateOf(ev.resolved.ts) = IF ev.exif.ts.year = "0000"
                                    THEN DateOf(ev.src.name.stem.ts)
                                    ELSE DateOf(ev.exif.ts)
        /\ tags[ev.f].DateTimeOriginal = ExifStr(ev.resolved.ts)

\* C6 amended: for a media file whose name is not in the canonical form, in
\* the hour case the resolved timestamp has the time of the name and the date
\* of the metadata, the date of the name when the metadata year is "0000" and
\* the year of the name is not; DateTimeOriginal holds the merged timestamp
\* when exiftool wrote it, and is unchanged when exiftool failed.
C6_HourMerge ==
    (HourCase /\ ~is_desired_media_file_format(ev.src.name.stem))
    => /\ ev.merged
       /\ TimeOf(ev.resolved.ts) = TimeOf(ev.src.name.stem.ts)
       /\ DateOf(ev.resolved.ts) =
              IF ev.exif.ts.year = "0000" /\ ev.src.name.stem.ts.year # "0000"
              THEN DateOf(ev.src.name.stem.ts)
              ELSE DateOf(ev.exif.ts)
       /\ ev.fault # "dto" => (ev.wrote /\ tags[ev.f].DateTimeOriginal = ExifStr(ev.resolved.ts))
       /\ ev.fault = "dto" =>
              (~ev.wrote /\ tags[ev.f].DateTimeOriginal = ev.dto)

\* C6 witness: a merged timestamp, with the date of the name because the
\* metadata year is "0000", was written and the file moved to its name.
C6_Merged ==
    /\ HourCase /\ ev.merged /\ ev.wrote /\ ev.kind = "moved"
    /\ ev.exif.ts.year = "0000"
    /\ tags[ev.f].DateTimeOriginal = ExifStr(ev.src.name.stem.ts)

\* C7: a destination built for year Y and month M lies in a directory M whose
\* parent is Y, and no year directory lies beneath a year directory (checked
\* on the runs in which no tool fails, for the timestamps with a year and a
\* month that are not zero).
C7_Layout ==
    faults = 0 =>
    /\ (ev.f # 0 /\ ev.lit # NoLoc /\ ev.resolved.ts.year # "0000"
           /\ ev.resolved.ts.month # "00") =>
           /\ Len(ev.lit.dir) >= 2
           /\ Basename(ev.lit.dir) = ev.resolved.ts.month
           /\ Basename(Dirname(ev.lit.dir)) = ev.resolved.ts.year
    /\ \A d \in dirs : \A i, j \in 1..Len(d) :
           i < j => ~(d[i] \in {"2019", "2020"} /\ d[j] \in {"2019", "2020"})

C9_LedgerSkip ==
    [][\A f \in FileIds :
          (/\ script \in {"addexif", "pngs"} /\ pc = "files"
           /\ f \in pending /\ f \notin pending'
           /\ InLedger(files[f].name))
          => (/\ files' = files /\ tags' = tags /\ dirs' = dirs
              /\ ledger' = ledger /\ seen' = seen /\ handled' = handled
              /\ ev'.kind = "skipped")]_vars

\* C9 witness: a file with a ledger row was skipped.
C9_Skipped ==
    /\ ev.kind = "skipped" /\ ev.f # 0
    /\ InLedger(files[ev.f].name)
    /\ LocOf(World, ev.f) = LocOf(init0, ev.f) /\ tags = init0.tags

\* C10 as it is written: a failed record does not end the run.
C10_AsWritten ==
    ev.kind = "recfail" => pc # "exited"

\* C10 amended: a failed record ends the run at once (sys.exit(1) after the
\* error is logged), the files not yet visited stay unvisited, and the file
\* has no ledger row, so that a later run that reaches it handles it again.
C10_RecordFailureExits ==
    /\ ev.kind = "recfail" =>
           /\ pc = "exited"
           /\ handled[ev.f] # 0
           /\ ~InLedger(files[ev.f].name)
    /\ \A f \in FileIds : (handled[f] = run /\ f # ev.f) => ev.kind # "recfail"

\* C10 witness: the run ended on a failed record with files of the listing
\* not yet visited.
C10_Exited ==
    ev.kind = "recfail" /\ pc = "exited" /\ pending # {}

\* C11: the step of the pruner (delete_empty_folders of shared_methods or of
\* Rename-Jpgs) removes the empty leaf directories below the start directory
\* and leaves every file where it is, its directory and the directories above
\* it in place.
C11_Pruned ==
    [][(script \in {"prune", "jpgs"} /\ pc # "done" /\ pc' = "done")
       => /\ \A f \in FileIds : files[f].alive =>
                 /\ files'[f] = files[f]
                 /\ \A d \in Prefixes(files[f].dir) : d \in dirs'
          /\ \A d \in dirs :
                 (IsUnder(d, start) /\ FilesIn(World, d) = {} /\ SubdirsOf(World, d) = {})
                 => d \notin dirs']_vars

\* The directory lies in or below a directory under the scan root whose name
\* starts with @ . $ or ~.
UnderSpecial(root, dir) ==
    \E i \in (Len(root) + 1)..Len(dir) : IsSpecialName(dir[i])

\* C12: no file under a special directory below the scan root is read, moved
\* or renamed by a run of Sort-N-Rename-Media or Rename-Jpgs (checked on the
\* runs in which no tool fails).
C12_SpecialPruned ==
    (script \in {"sort", "jpgs"} /\ faults = 0) =>
        /\ (ev.f # 0 /\ ev.kind \notin {"noext", "notmedia"})
               => ~UnderSpecial(start, ev.src.dir)
        /\ \A f \in FileIds :
               (init0.files[f].alive /\ UnderSpecial(start, init0.files[f].dir))
               => LocOf(World, f) = LocOf(init0, f)

\* C13: when a run of Sort-N-Rename-Media that met no failure has ended, every
\* photo or video of the initial tree (extension compared without case) that
\* is not under a special directory has been considered by the file loop.
C13_AllConsidered ==
    (script = "sort" /\ run = 1 /\ pc = "done" /\ faults = 0) =>
        \A f \in FileIds :
            (/\ init0.files[f].alive
             /\ Lower(init0.files[f].name.ext) \in PHOTO_EXTENSIONS \cup VIDEO_EXTENSIONS
             /\ ~UnderSpecial(start, init0.files[f].dir))
            => f \in seen

\* C14: when a file is renamed from its metadata and its stem is no
\* timestamp, the stem is written to the Title of that file where the mover
\* placed it; no Title is written when the move failed, and no other file's
\* Title is written (checked on the steps in which exiftool does not fail).
C14_TitleTarget ==
    (script = "sort" /\ ev.f # 0 /\ ev.fault \notin {"title", "dto"}) =>
        /\ ev.title # 0 => ev.title = ev.f
        /\ ev.kind = "movefail" => ev.title = 0
        /\ (ev.kind = "moved" /\ ~ev.fromName /\ ~DatetimeSearch(ev.src.name.stem))
               => (ev.title = ev.f /\ tags[ev.f].Title = ev.src.name.stem)
        /\ \A g \in FileIds : g # ev.f => tags[g].Title = NoVal

\* No tag of the fallback chains holds a value for the file.
NoTimestampTag(f) ==
    /\ tags[f].DateTimeOriginal = NoVal /\ tags[f].CreateDate = NoVal
    /\ tags[f].FileModifyDate = NoVal /\ tags[f].CreationDate = NoVal

\* C15: a photo or video under the library root whose name matches the
\* filename grammar without a sub-second group, and for which no metadata tag
\* yields a timestamp, gets the destination <root>/<year>/<month>/<timestamp
\* of the name>.000<ext> and is moved there when the name is free (checked on
\* the runs in which no tool fails).
C15_FilenameEvidence ==
    (/\ script = "sort" /\ faults = 0 /\ start = <<"lib">>
     /\ ev.f # 0 /\ ev.kind \notin {"noext", "notmedia"}
     /\ NamedDateMatch(ev.src.name.stem)
     /\ ev.src.name.stem.micro = <<>> /\ ev.src.name.stem.idx = <<>>
     /\ ev.src.name.stem.ts.year # "0000"
     /\ NoTimestampTag(ev.f))
    => /\ pc # "crashed"
       /\ ev.lit = Loc(<<"lib", ev.src.name.stem.ts.year, ev.src.name.stem.ts.month>>,
                       MkName(DashStr(ev.src.name.stem.ts, <<0, 0, 0>>), ev.src.name.ext))
       /\ ev.fin = ev.lit => LocOf(World, ev.f) = ev.lit

\* C16: when os.makedirs or os.rename fails inside move_or_rename_file, the
\* mover returns None, every file (the source included) stays where it was,
\* so no file appears at the destination, and the run goes on.
C16_MoveFailure ==
    [][(/\ script = "sort" /\ pc = "files" /\ pending' # pending
        /\ ev'.kind = "movefail" /\ ev'.fault \in {"mkdir", "rename"})
       => /\ ev'.fin = NoLoc
          /\ files' = files
          /\ LocOf(World, ev'.f) = ev'.src
          /\ FilesAt(World, ev'.lit) = {}
                 => ~\E g \in FileIds :
                        files'[g].alive /\ Loc(files'[g].dir, files'[g].name) = ev'.lit
          /\ pc' = "files"]_vars

C16_Witness ==
    /\ script = "sort" /\ pc = "files" /\ pending # {}
    /\ ev.kind = "movefail" /\ ev.fault = "rename"
    /\ LocOf(World, ev.f) = ev.src
    /\ ev.lit # NoLoc /\ FilesAt(World, ev.lit) = {}

\* C17: two runs of a ledger script on one tree are not kept apart: a run
\* passes the ledger check for a file exactly when no ledger row holds its
\* basename, whatever the other run is doing, so both runs can have passed
\* the check for the same file before either recorded it.
C17_CheckIgnoresPeer ==
    [][\A p \in ProcIds :
          (procs[p].pc = "check" /\ procs[p].todo # procs'[p].todo)
          => \A file_path \in procs[p].todo \ procs'[p].todo :
                (procs'[p].pc = "work" /\ procs'[p].cur = file_path)
                <=> ~InLedger(file_path.name)]_vars

C17_BothPassed ==
    /\ procs[1].pc = "work" /\ procs[2].pc = "work"
    /\ procs[1].cur # NoLoc /\ procs[1].cur = procs[2].cur
    /\ FilesAt(World, procs[1].cur) # {}
    /\ ~InLedger(procs[1].cur.name)
    /\ ledger = {}

\* The order of the tags of a media kind, and the first of them whose value is
\* a timestamp with a year other than 0000 and a month other than 00.
FallbackOrder(photo) ==
    IF photo THEN <<"DateTimeOriginal", "FileModifyDate">>
    ELSE <<"CreateDate", "CreationDate", "DateTimeOriginal">>

RECURSIVE FirstValid(_, _, _)
FirstValid(t, order, i) ==
    IF i > Len(order) THEN NoVal
    ELSE IF /\ t[order[i]] # NoVal /\ t[order[i]].fmt # "none"
            /\ t[order[i]].ts.year # "0000" /\ t[order[i]].ts.month # "00"
         THEN t[order[i]]
    ELSE FirstValid(t, order, i + 1)

\* The tags of the file of the last step as they were before the step.
TagsBefore == [tags[ev.f] EXCEPT !.DateTimeOriginal = ev.dto]

\* C18: the metadata timestamp used for a file is the value of the first tag
\* of its chain (primary, secondary, and DateTimeOriginal for videos only)
\* that holds a non-empty, valid timestamp (checked on the files that have
\* such a tag, in runs in which no tool fails).
C18_OrderedFallback ==
    (/\ script = "sort" /\ faults = 0 /\ ev.f # 0
     /\ ev.kind \notin {"noext", "notmedia", "inplace"} /\ ~ev.fromName
     /\ FirstValid(TagsBefore,
                   FallbackOrder(Lower(ev.src.name.ext) \in PHOTO_EXTENSIONS), 1) # NoVal)
    => /\ ev.exif # NoVal
       /\ ev.exif.ts = FirstValid(TagsBefore,
                           FallbackOrder(Lower(ev.src.name.ext) \in PHOTO_EXTENSIONS), 1).ts

\* C19: when the literal destination exists and is not the source, the mover
\* places the file at "<base> (n)<ext>" for the smallest n >= 1 whose path
\* does not exist or is the source itself, and in the latter case the file
\* keeps its path.
C19_SmallestSuffix ==
    [][(/\ script \in {"sort", "jpgs"} /\ pc = "files" /\ pending' # pending
        /\ ev'.kind = "moved" /\ ev'.fin # NoLoc
        /\ PathExists(World, ev'.lit) /\ ev'.lit # ev'.src)
       => \E n \in 1..(MaxFiles + 1) :
            /\ ev'.fin = WithIndex(ev'.lit, n)
            /\ ~PathExists(World, WithIndex(ev'.lit, n)) \/ WithIndex(ev'.lit, n) = ev'.src
            /\ \A m \in 1..(n - 1) :
                   PathExists(World, WithIndex(ev'.lit, m)) /\ WithIndex(ev'.lit, m) # ev'.src
            /\ Loc(files'[ev'.f].dir, files'[ev'.f].name) = ev'.fin]_vars

\* C20: the destination built for a file is <archive-root>/<year>/<month>/
\* <name>, where the archive-root is the parent of the start directory when
\* the name of the start directory starts with four digits, and the start
\* directory itself otherwise, for every resolved year and month (checked on
\* the runs in which no tool fails).
C20_ArchiveRoot ==
    (/\ script = "sort" /\ faults = 0 /\ ev.f # 0
     /\ ev.lit # NoLoc /\ ev.resolved # NoVal /\ ev.resolved.fmt # "none")
    => ev.lit.dir = Join(Join(IF Starts4Digits(Basename(start))
                              THEN Dirname(start) ELSE start,
                              ev.resolved.ts.year),
                         ev.resolved.ts.month)

\* The destination built from a name that starts with the canonical pattern,
\* for a start directory that is no year or month folder.
NameDestination(loc) ==
    Loc(Join(Join(start, loc.name.stem.ts.year), loc.name.stem.ts.month),
        MkName(DashStr(loc.name.stem.ts, loc.name.stem.micro), loc.name.ext))

\* C21: for a photo or video whose stem starts with YYYY-MM-DD HH.MM.SS.mmm
\* the step reads and writes no tag (no DateTimeOriginal rewrite, no Title);
\* it builds the destination from the name, does nothing when that is the
\* current path, and otherwise hands the file to the mover for that path.
C21_CanonicalBypass ==
    [][(/\ script = "sort" /\ pc = "files" /\ pending' # pending
        /\ ev'.src.name.stem.fmt = "dash" /\ ~ev'.src.name.stem.pre
        /\ Len(ev'.src.name.stem.micro) >= 3
        /\ Lower(ev'.src.name.ext) \in PHOTO_EXTENSIONS \cup VIDEO_EXTENSIONS)
       => /\ tags' = tags
          /\ ev'.exif = NoVal /\ ~ev'.merged /\ ~ev'.wrote /\ ev'.title = 0
          /\ pc' = "files"
          /\ IF ev'.src = NameDestination(ev'.src)
             THEN ev'.kind = "inplace" /\ files' = files
             ELSE /\ ev'.lit = NameDestination(ev'.src)
                  /\ ev'.kind \in {"moved", "movefail"}
                  /\ ev'.kind = "movefail" => files' = files
                  /\ ev'.kind = "moved"
                         => /\ Loc(files'[ev'.f].dir, files'[ev'.f].name) = ev'.fin
                            /\ ev'.fin = ev'.lit \/ PathExists(World, ev'.lit)]_vars

\* A file with a canonical name whose DateTimeOriginal has hour 00 was moved
\* by its name, the tag left as it was.
C21_MovedByName ==
    /\ script = "sort" /\ ev.kind = "moved" /\ ev.fromName
    /\ ev.fin = NameDestination(ev.src)
    /\ ev.dto # NoVal /\ ev.dto.ts.hour = "00" /\ ev.src.name.stem.ts.hour # "00"
    /\ tags[ev.f].DateTimeOriginal = ev.dto

\* C22: the file name built for a file ends with the extension the file had,
\* letters and case unchanged, in Sort-N-Rename-Media and in Rename-Jpgs.
C22_ExtensionKept ==
    (script \in {"sort", "jpgs"} /\ ev.f # 0 /\ ev.lit # NoLoc)
    => ev.lit.name.ext = ev.src.name.ext

C25_NoEmptyLeft ==
    (/\ script \in {"prune", "jpgs"} /\ pc = "done"
     /\ \A d \in dirs : \A i \in 1..Len(d) : d[i] # "0000")
    => \A d \in dirs :
          (IsUnder(d, start) /\ d # start /\ ~UnderSpecial(start, d))
          => (FilesIn(World, d) # {} \/ SubdirsOf(World, d) # {})

\* C26: across the runs of Sort-N-Rename-Media (year-folder sync, renames,
\* empty-folder deletion) no step deletes or replaces a file, no two files come
\* to share a path, and every directory a step removes held no file and no
\* directory when the step began.
C26_FilesConserved ==
    [][script = "sort"
         => /\ \A f \in FileIds : files[f].alive => files'[f].alive
            /\ DistinctPaths([files |-> files', dirs |-> dirs', tags |-> tags'])
            /\ \A f \in FileIds : files'[f].alive => files'[f].dir \in dirs'
            /\ \A d \in dirs \ dirs' :
                  FilesIn(World, d) = {} /\ SubdirsOf(World, d) = {}]_vars

\* A complete run synced a year folder: a file that lay in Misc/2020/01 went
\* to 2020/01 beside the file already there, and Misc/2020 is gone.
C26_Synced ==
    /\ script = "sort" /\ pc = "done" /\ run = 1
    /\ <<"lib", "Misc", "2020">> \notin dirs
    /\ \E f, g \in FileIds :
          /\ f # g /\ init0.files[f].alive /\ init0.files[g].alive
          /\ init0.files[f].dir = <<"lib", "Misc", "2020", "01">>
          /\ init0.files[g].dir = <<"lib", "2020", "01">>
          /\ init0.files[f].name = init0.files[g].name
          /\ files[f].alive /\ files[g].alive
          /\ files[f].dir = <<"lib", "2020", "01">>
          /\ files[g].dir = <<"lib", "2020", "01">>
\* The only file of the initial tree, when it lies in the start directory
\* (0 otherwise), and the tree an uninterrupted run makes of such a tree: the
\* loop body applied to that file.
OnlyFile ==
    IF /\ Cardinality({f \in FileIds : init0.files[f].alive}) = 1
       /\ \A f \in FileIds : init0.files[f].alive => init0.files[f].dir = start
       /\ SubdirsOf(init0, start) = {}
    THEN CHOOSE f \in FileIds : init0.files[f].alive
    ELSE 0

Uninterrupted == ProcessFile(init0, start, OnlyFile, "none").W

\* C27: when a run of Sort-N-Rename-Media was killed inside the processing of
\* a file and the next run has run to its end (with no failing call), the
\* path, the DateTimeOriginal and the Title of the file are those an
\* uninterrupted run over the initial tree produces.
C27_ResumeEquivalent ==
    (/\ script = "sort" /\ OnlyFile # 0
     /\ interrupted /\ pc = "done" /\ clean = 1 /\ faults = 0)
    => /\ files[OnlyFile] = Uninterrupted.files[OnlyFile]
       /\ tags[OnlyFile].DateTimeOriginal = Uninterrupted.tags[OnlyFile].DateTimeOriginal
       /\ tags[OnlyFile].Title = Uninterrupted.tags[OnlyFile].Title

C29_WriteFrame ==
    [][(script = "sort" /\ pc = "files" /\ pending' # pending)
       => LET merge == /\ ev'.exif # NoVal
                       /\ ev'.exif.fmt # "none" /\ ev'.src.name.stem.fmt # "none"
                       /\ ev'.exif.ts.hour = "00" /\ ev'.src.name.stem.ts.hour # "00"
          IN /\ \A g \in FileIds :
                   [tags'[g] EXCEPT !.Title = NoVal, !.DateTimeOriginal = NoVal]
                     = [tags[g] EXCEPT !.Title = NoVal, !.DateTimeOriginal = NoVal]
             /\ \A g \in FileIds :
                   tags'[g].DateTimeOriginal # tags[g].DateTimeOriginal
                   => (g = ev'.f /\ merge /\ ev'.wrote)
             /\ ev'.wrote => merge
             /\ ~merge => ~ev'.merged]_vars

\* C29 witness: the hour reconciliation wrote a new DateTimeOriginal to a file
\* whose metadata year is set, and nothing else of its tags changed.
C29_Rewritten ==
    /\ script = "sort" /\ ev.f # 0 /\ ev.merged /\ ev.wrote
    /\ ev.exif.ts.year # "0000"
    /\ tags[ev.f].DateTimeOriginal # ev.dto
    /\ tags[ev.f] = [init0.tags[ev.f] EXCEPT !.DateTimeOriginal = ExifStr(ev.resolved.ts)]

\* C30: every run of Sort-N-Rename-Media and of Rename-Jpgs that has started
\* comes to its end (it returns, or an exception ends it), when each of its
\* calls returns.
C30_Terminates ==
    (pc = "start") ~> (pc \in {"done", "crashed"})

\* C30 witness: a run of Rename-Jpgs ended whose last file step found, in the
\* year/month directory the walk came to later, a file the run had moved there.
C30_Revisited ==
    /\ script = "jpgs" /\ pc = "done" /\ run = 1
    /\ ev.f # 0 /\ ev.f \in moved
    /\ ev.src.dir # init0.files[ev.f].dir
    /\ ev.src.dir = <<"lib", "2020", "01">>
====
